---- MODULE Spec2Model ----
(***************************************************************************)
(* The video ingestion and caching pipeline of                             *)
(* src/src/main/services/VideoIngestService.ts as a state machine.         *)
(*                                                                         *)
(* Times are whole seconds.  The cache directory of a source is keyed by   *)
(* the hash of its content; the files of a cache directory are the         *)
(* manifest, the numbered frame files and audio.wav.  One request is one   *)
(* run of ingestVideo; its steps are the stretches of code between two     *)
(* awaits, so that two requests interleave exactly where the code yields.  *)
(***************************************************************************)
EXTENDS Integers, Sequences, FiniteSets, TLC

(***************************************************************************)
(* Bounds of the model.                                                    *)
(***************************************************************************)
\* requests the sequential specification may start
MaxRequests == 2
\* changes the environment may make to the disk
MaxEnvSteps == 1
\* requests the specification of the varied disks may start
MaxFileRequests == 1
\* buildSegments alone: the most frames, the longest frame interval, probed
\* duration and segment duration, the most cues and the latest cue end
MaxFrameCount == 3
MaxInterval == 2
MaxDuration == 5
MaxSegmentDuration == 3
MaxCues == 2
MaxCueEnd == 3
MaxBlocks == 3
MaxOptionValue == 2
MaxDamagedRequests == 2
MaxChunks == 2
MaxStaleRequests == 3
MaxToolChanges == 2

(***************************************************************************)
(* Program constants.                                                      *)
(***************************************************************************)
CACHE_VERSION == 1

OptionFields ==
  {"frameIntervalSec", "maxFrames", "segmentDurationSec", "maxAudioDurationSec"}

DEFAULT_INGEST_OPTIONS ==
  [frameIntervalSec |-> 2, maxFrames |-> 12,
   segmentDurationSec |-> 20, maxAudioDurationSec |-> 600]

FILE_TYPE_VIDEO == "video"

(***************************************************************************)
(* Option values as the caller passes them: a number n/d, NaN, an          *)
(* infinity, or a field left out.                                          *)
(***************************************************************************)
Undef == [k |-> "undef", n |-> 0, d |-> 1]
NaN == [k |-> "nan", n |-> 0, d |-> 1]
Num(n) == [k |-> "num", n |-> n, d |-> 1]
Frac(n, d) == [k |-> "num", n |-> n, d |-> d]

NumberIsFinite(x) == x.k = "num"
MathFloor(x) == x.n \div x.d

NoOptions == [f \in OptionFields |-> Undef]

\* normalizeOptions asking `maxFrames > 0` like the other fields
NormalizeOptionsPositiveFrames(options) ==
  LET mergedOptions ==
        [f \in OptionFields |->
           IF options[f].k = "undef"
             THEN Num(DEFAULT_INGEST_OPTIONS[f]) ELSE options[f]]
      safeFrameInterval ==
        IF NumberIsFinite(mergedOptions.frameIntervalSec)
             /\ mergedOptions.frameIntervalSec.n > 0
          THEN mergedOptions.frameIntervalSec.n
          ELSE DEFAULT_INGEST_OPTIONS.frameIntervalSec
      safeMaxFrames ==
        IF NumberIsFinite(mergedOptions.maxFrames)
             /\ mergedOptions.maxFrames.n > 0
          THEN MathFloor(mergedOptions.maxFrames)
          ELSE DEFAULT_INGEST_OPTIONS.maxFrames
      safeSegmentDuration ==
        IF NumberIsFinite(mergedOptions.segmentDurationSec)
             /\ mergedOptions.segmentDurationSec.n > 0
          THEN mergedOptions.segmentDurationSec.n
          ELSE DEFAULT_INGEST_OPTIONS.segmentDurationSec
      safeMaxAudioDuration ==
        IF NumberIsFinite(mergedOptions.maxAudioDurationSec)
             /\ mergedOptions.maxAudioDurationSec.n > 0
          THEN mergedOptions.maxAudioDurationSec.n
          ELSE DEFAULT_INGEST_OPTIONS.maxAudioDurationSec
  IN [frameIntervalSec |-> safeFrameInterval,
      maxFrames |-> safeMaxFrames,
      segmentDurationSec |-> safeSegmentDuration,
      maxAudioDurationSec |-> safeMaxAudioDuration]

\* normalizeOptions: the defaults, overridden by the fields given, each
\* field then replaced by its default unless finite and in range.
NormalizeOptions(options) ==
  LET mergedOptions ==
        [f \in OptionFields |->
           IF options[f].k = "undef"
             THEN Num(DEFAULT_INGEST_OPTIONS[f]) ELSE options[f]]
      safeFrameInterval ==
        IF NumberIsFinite(mergedOptions.frameIntervalSec)
             /\ mergedOptions.frameIntervalSec.n > 0
          THEN mergedOptions.frameIntervalSec.n
          ELSE DEFAULT_INGEST_OPTIONS.frameIntervalSec
      safeMaxFrames ==
        IF NumberIsFinite(mergedOptions.maxFrames)
             /\ mergedOptions.maxFrames.n >= 0
          THEN MathFloor(mergedOptions.maxFrames)
          ELSE DEFAULT_INGEST_OPTIONS.maxFrames
      safeSegmentDuration ==
        IF NumberIsFinite(mergedOptions.segmentDurationSec)
             /\ mergedOptions.segmentDurationSec.n > 0
          THEN mergedOptions.segmentDurationSec.n
          ELSE DEFAULT_INGEST_OPTIONS.segmentDurationSec
      safeMaxAudioDuration ==
        IF NumberIsFinite(mergedOptions.maxAudioDurationSec)
             /\ mergedOptions.maxAudioDurationSec.n > 0
          THEN mergedOptions.maxAudioDurationSec.n
          ELSE DEFAULT_INGEST_OPTIONS.maxAudioDurationSec
  IN [frameIntervalSec |-> safeFrameInterval,
      maxFrames |-> safeMaxFrames,
      segmentDurationSec |-> safeSegmentDuration,
      maxAudioDurationSec |-> safeMaxAudioDuration]

\* isSameOptions with one comparison forgotten
IsSameOptionsNoAudioCap(a, b) ==
  /\ a.frameIntervalSec = b.frameIntervalSec
  /\ a.maxFrames = b.maxFrames
  /\ a.segmentDurationSec = b.segmentDurationSec

IsSameOptions(a, b) ==
  /\ a.frameIntervalSec = b.frameIntervalSec
  /\ a.maxFrames = b.maxFrames
  /\ a.segmentDurationSec = b.segmentDurationSec
  /\ a.maxAudioDurationSec = b.maxAudioDurationSec

(***************************************************************************)
(* The options the requests of the model pass.                             *)
(***************************************************************************)
RawOptionChoices ==
  { NoOptions,
    [NoOptions EXCEPT !.maxFrames = Num(0)],
    [NoOptions EXCEPT !.segmentDurationSec = Num(2)],
    [NoOptions EXCEPT !.maxFrames = Frac(5, 2), !.segmentDurationSec = Num(2)] }

(***************************************************************************)
(* Paths.  A source or sidecar path is its directory, base name and        *)
(* extension; a file of a cache directory is named by the cache key.       *)
(***************************************************************************)
SourcePath(dir, name, ext) == [dir |-> dir, name |-> name, ext |-> ext]
FramePath(key, i) == [dir |-> key, frame |-> i]
AudioPath(key) == [dir |-> key, file |-> "audio.wav"]
NoPath == SourcePath("", "", "")


(***************************************************************************)
(* The file descriptors the callers pass.  File "5" is neither at its     *)
(* stored path nor in the files directory.                                 *)
(***************************************************************************)
FilesDir == "files"

PathA == SourcePath("v", "a", ".mp4")
PathB == SourcePath("w", "b", ".mp4")

Files ==
  { [id |-> "1", type |-> "video", path |-> PathA, ext |-> ".mp4"],
    [id |-> "2", type |-> "video", path |-> PathB, ext |-> ".mp4"],
    [id |-> "3", type |-> "image", path |-> SourcePath("v", "c", ".png"), ext |-> ".png"],
    [id |-> "5", type |-> "video", path |-> SourcePath("x", "lost", ".mp4"), ext |-> ".mp4"] }

FallbackPath(file) == SourcePath(FilesDir, file.id, file.ext)

SrcPaths == { PathA, PathB }

\* further sources: a long video, a file that exists but cannot be read, and
\* copies in the files directory
PathLong == SourcePath("w", "long", ".mp4")
PathLocked == SourcePath("v", "locked", ".mp4")

MoreFiles ==
  Files \cup
  { [id |-> "4", type |-> "video", path |-> SourcePath("x", "moved", ".mp4"), ext |-> ".mp4"],
    [id |-> "6", type |-> "video", path |-> PathLocked, ext |-> ".mp4"],
    [id |-> "7", type |-> "video", path |-> PathLong, ext |-> ".mp4"],
    [id |-> "8", type |-> "video", path |-> NoPath, ext |-> ".mp4"] }

\* fs.promises.access(path, R_OK) resolves
CanRead(path) == path # PathLocked

(***************************************************************************)
(* The media.  A content is the byte string of a source file; what the     *)
(* external tools make of it is a function of the content alone.           *)
(***************************************************************************)
Contents == {1, 2, 3}
\* a video of forty seconds
LongContents == {4}

\* SHA-256 of a content, taken to be free of collisions
Sha256(c) == CASE c = 1 -> "h1" [] c = 2 -> "h2" [] c = 4 -> "h4" [] OTHER -> "h3"

Keys == { Sha256(c) : c \in Contents \cup LongContents }

\* seconds of video in the content
MediaLength(c) == CASE c = 1 -> 5 [] c = 2 -> 3 [] c = 4 -> 40 [] OTHER -> 0
\* whether the content has an audio stream ffmpeg can extract
HasAudioStream(c) == c # 2
\* what ffprobe prints as the container duration
ProbeStdout(c) ==
  CASE c = 1 -> "5.000000" [] c = 2 -> "N/A" [] c = 4 -> "40.000000"
    [] OTHER -> "0.000000"

\* Number.parseFloat(stdout.trim()) on the outputs above
ParseFloat(s) ==
  CASE s = "5.000000" -> Num(5)
    [] s = "40.000000" -> Num(40)
    [] s = "0.000000" -> Num(0)
    [] OTHER -> NaN

Max(a, b) == IF a >= b THEN a ELSE b
Min(a, b) == IF a <= b THEN a ELSE b
\* Math.ceil(a / b) and Math.floor(a / b) for a >= 0, b > 0
CeilDiv(a, b) == (a + b - 1) \div b
FloorDiv(a, b) == a \div b

\* frames ffmpeg emits with -vf fps=1/interval -frames:v maxFrames
FrameSupply(c, options) ==
  Min(options.maxFrames, CeilDiv(MediaLength(c), options.frameIntervalSec))

\* bytes of mono 16 kHz 16-bit PCM cut at maxAudioDurationSec
AudioSize(c, options) ==
  Min(MediaLength(c), options.maxAudioDurationSec) * 32000

(***************************************************************************)
(* Sidecar subtitle files: the blocks of the file, each with its timecode  *)
(* line (if any) and its text.                                             *)
(***************************************************************************)
Block(start, end, text) ==
  [timeline |-> TRUE, start |-> start, end |-> end, text |-> text]

GoodSubtitle ==
  [readable |-> TRUE,
   blocks |-> << Block(Num(3), Num(5), "b"), Block(Num(0), Num(3), "a"),
                 Block(Num(4), Num(2), "bad") >>]
EmptySubtitle ==
  [readable |-> TRUE, blocks |-> << Block(Num(4), Num(2), "bad"), Block(NaN, Num(2), "x") >>]

SubtitleFiles == {GoodSubtitle, EmptySubtitle}

\* a file that exists but cannot be read, and a second file with cues
UnreadableSubtitle == [readable |-> FALSE, blocks |-> << >>]
OtherSubtitle == [readable |-> TRUE, blocks |-> << Block(Num(1), Num(2), "c") >>]

SidecarPath(sourcePath, ext) == [sourcePath EXCEPT !.ext = ext]
SidecarPaths == { SidecarPath(PathA, e) : e \in {".srt", ".vtt"} }

TranscriptSegment(b) == [startSec |-> b.start.n, endSec |-> b.end.n, text |-> b.text]

\* Array.prototype.sort by startSec (stable): insertion into a sorted list
RECURSIVE InsertByStart(_, _)
InsertByStart(sorted, seg) ==
  IF sorted = << >> THEN << seg >>
  ELSE IF Head(sorted).startSec <= seg.startSec
         THEN << Head(sorted) >> \o InsertByStart(Tail(sorted), seg)
         ELSE << seg >> \o sorted

RECURSIVE SortByStart(_)
SortByStart(segs) ==
  IF segs = << >> THEN << >>
  ELSE InsertByStart(SortByStart(SubSeq(segs, 1, Len(segs) - 1)), segs[Len(segs)])

\* the same check with `endSec < startSec` for `endSec <= startSec`
WellFormedOrEmptySpan(b) ==
  /\ b.timeline
  /\ NumberIsFinite(b.start) /\ NumberIsFinite(b.end)
  /\ ~(b.end.n * b.start.d < b.start.n * b.end.d)
  /\ b.text # ""

\* parseSubtitle on the blocks of a file
WellFormed(b) ==
  /\ b.timeline
  /\ NumberIsFinite(b.start) /\ NumberIsFinite(b.end)
  /\ ~(b.end.n * b.start.d <= b.start.n * b.end.d)
  /\ b.text # ""

RECURSIVE KeepWellFormed(_)
KeepWellFormed(blocks) ==
  IF blocks = << >> THEN << >>
  ELSE (IF WellFormed(Head(blocks)) THEN << TranscriptSegment(Head(blocks)) >> ELSE << >>)
         \o KeepWellFormed(Tail(blocks))

ParseSubtitle(blocks) == SortByStart(KeepWellFormed(blocks))

(***************************************************************************)
(* The text of a subtitle file, block by block, as parseSubtitle reads it. *)
(* A timecode token is the list of its colon-separated parts, each part    *)
(* being what parseInt / parseFloat make of it (whole seconds only); the   *)
(* text lines are a list of pieces, each a markup tag or a word.           *)
(***************************************************************************)
Tag(s) == [tag |-> TRUE, s |-> s]
Word(s) == [tag |-> FALSE, s |-> s]

RawBlock(timeline, start, end, text) ==
  [timeline |-> timeline, start |-> start, end |-> end, text |-> text]

\* "00:00:0n,000", "0m:00.000" and "0h:00:00.000"
Timecode(hours, minutes, seconds) == << Num(hours), Num(minutes), Num(seconds) >>
ShortTimecode(minutes, seconds) == << Num(minutes), Num(seconds) >>

\* "3", "00:00:00:01", "00:xx:01", "00:00:xx", "xx:00:01"
BadTimecodes ==
  { << Num(3) >>, << Num(0), Num(0), Num(0), Num(1) >>, << Num(0), NaN, Num(1) >>,
    << Num(0), Num(0), NaN >>, << NaN, Num(0), Num(1) >> }

RawBlocks ==
  { RawBlock(TRUE, Timecode(0, 0, 0), Timecode(0, 0, 2), << Word("a") >>),
    RawBlock(TRUE, Timecode(0, 0, 2), Timecode(0, 0, 0), << Word("a") >>),
    RawBlock(TRUE, Timecode(0, 0, 2), Timecode(0, 0, 2), << Word("a") >>),
    RawBlock(TRUE, Timecode(0, 0, 0), ShortTimecode(1, 0), << Word("a") >>),
    RawBlock(TRUE, ShortTimecode(1, 0), Timecode(1, 0, 0), << Word("a") >>),
    RawBlock(TRUE, Timecode(0, 0, 2), ShortTimecode(1, 0),
             << Tag("<i>"), Word("b"), Tag("</i>") >>),
    RawBlock(TRUE, Timecode(0, 0, 0), Timecode(0, 0, 2), << Tag("<br>") >>),
    RawBlock(TRUE, Timecode(0, 0, 0), Timecode(0, 0, 2), << >>),
    RawBlock(FALSE, << >>, << >>, << Word("a") >>) }
    \cup { RawBlock(TRUE, t, Timecode(1, 0, 0), << Word("a") >>) : t \in BadTimecodes }
    \cup { RawBlock(TRUE, Timecode(0, 0, 0), << Num(3) >>, << Word("a") >>) }

ParseTimecode(parts) ==
  IF Len(parts) < 2 \/ Len(parts) > 3 THEN NaN
  ELSE LET seconds == parts[Len(parts)]
           minutes == parts[Len(parts) - 1]
           hours == IF Len(parts) = 3 THEN parts[1] ELSE Num(0)
       IN IF ~NumberIsFinite(seconds) \/ minutes = NaN \/ hours = NaN THEN NaN
          ELSE Num(hours.n * 3600 + minutes.n * 60 + seconds.n)

\* .replace(/<[^>]+>/g, '')
RECURSIVE StripMarkup(_)
StripMarkup(text) ==
  IF text = << >> THEN ""
  ELSE (IF Head(text).tag THEN "" ELSE Head(text).s) \o StripMarkup(Tail(text))

\* one iteration of the loop up to the checks: the timeline, both times, the text
ParseBlock(raw) ==
  IF ~raw.timeline THEN [timeline |-> FALSE, start |-> NaN, end |-> NaN, text |-> ""]
  ELSE Block(ParseTimecode(raw.start), ParseTimecode(raw.end), StripMarkup(raw.text))

(***************************************************************************)
(* The records of an ingest result.                                        *)
(***************************************************************************)
NoAudio ==
  [present |-> FALSE, path |-> AudioPath(""), mime |-> "", sampleRate |-> 0,
   channels |-> 0, size |-> 0]
NoTranscript ==
  [present |-> FALSE, path |-> NoPath, format |-> "", segments |-> << >>]
NoResult ==
  [present |-> FALSE, sourceFileId |-> "", sourceHash |-> "", sourcePath |-> NoPath,
   createdAt |-> 0, cacheDir |-> "", durationSec |-> 0, frameIntervalSec |-> 0,
   segmentDurationSec |-> 0, frames |-> << >>, segments |-> << >>,
   audio |-> NoAudio, transcript |-> NoTranscript]

\* a result but for its creation time
SameButCreatedAt(r1, r2) == [r1 EXCEPT !.createdAt = 0] = [r2 EXCEPT !.createdAt = 0]


(***************************************************************************)
(* buildSegments.                                                          *)
(***************************************************************************)
RECURSIVE MaxEndSec(_)
MaxEndSec(transcriptSegments) ==
  IF transcriptSegments = << >> THEN 0
  ELSE Max(MaxEndSec(SubSeq(transcriptSegments, 1, Len(transcriptSegments) - 1)),
           transcriptSegments[Len(transcriptSegments)].endSec)

EffectiveDuration(frames, transcriptSegments, durationSec, segmentDurationSec) ==
  LET maxFrameTimestamp ==
        IF Len(frames) > 0 THEN frames[Len(frames)].timestampSec ELSE 0
      maxTranscriptTimestamp == MaxEndSec(transcriptSegments)
  IN Max(Max(durationSec, maxFrameTimestamp),
         Max(maxTranscriptTimestamp, segmentDurationSec))

SegmentCount(effectiveDuration, segmentDurationSec) ==
  Max(1, CeilDiv(effectiveDuration, segmentDurationSec))

\* the segments with endSec not cut at the effective duration
GenerateSegmentsUnclamped(effectiveDuration, segmentDurationSec) ==
  [i \in 1..SegmentCount(effectiveDuration, segmentDurationSec) |->
     [index |-> i - 1,
      startSec |-> (i - 1) * segmentDurationSec,
      endSec |-> i * segmentDurationSec,
      framePaths |-> << >>,
      representativeFramePath |-> << >>,
      transcript |-> ""]]

\* Array.from({length: segmentCount}, ...): position i holds index i - 1
GenerateSegments(effectiveDuration, segmentDurationSec) ==
  [i \in 1..SegmentCount(effectiveDuration, segmentDurationSec) |->
     [index |-> i - 1,
      startSec |-> (i - 1) * segmentDurationSec,
      endSec |-> Min(i * segmentDurationSec, effectiveDuration),
      framePaths |-> << >>,
      representativeFramePath |-> << >>,
      transcript |-> ""]]

\* the segment of a frame with the quotient rounded up
FrameSegmentRoundedUp(frame, segmentDurationSec, segmentCount) ==
  Min(CeilDiv(frame.timestampSec, segmentDurationSec), segmentCount - 1) + 1

\* the segment a frame is pushed to (an array position, from 1)
FrameSegment(frame, segmentDurationSec, segmentCount) ==
  Min(FloorDiv(frame.timestampSec, segmentDurationSec), segmentCount - 1) + 1

RECURSIVE AssignFrames(_, _, _)
AssignFrames(segments, frames, segmentDurationSec) ==
  IF frames = << >> THEN segments
  ELSE LET i == FrameSegment(Head(frames), segmentDurationSec, Len(segments))
       IN AssignFrames(
            [segments EXCEPT ![i].framePaths = Append(@, Head(frames).path)],
            Tail(frames), segmentDurationSec)

SetRepresentative(segments) ==
  [i \in 1..Len(segments) |->
     IF Len(segments[i].framePaths) > 0
       THEN [segments[i] EXCEPT !.representativeFramePath = << segments[i].framePaths[1] >>]
       ELSE segments[i]]

\* the overlap test with a cue that only touches a boundary let in
OverlapsOrTouches(transcriptSegment, segment) ==
  /\ transcriptSegment.startSec <= segment.endSec
  /\ transcriptSegment.endSec >= segment.startSec

Overlaps(transcriptSegment, segment) ==
  /\ transcriptSegment.startSec < segment.endSec
  /\ transcriptSegment.endSec > segment.startSec

\* [segment.transcript, text].filter(Boolean).join(' ').trim(), texts trimmed
JoinText(transcript, text) ==
  IF transcript = "" THEN text
  ELSE IF text = "" THEN transcript
  ELSE transcript \o " " \o text

RECURSIVE AssignTranscript(_, _)
AssignTranscript(segments, transcriptSegments) ==
  IF transcriptSegments = << >> THEN segments
  ELSE AssignTranscript(
         [i \in 1..Len(segments) |->
            IF Overlaps(Head(transcriptSegments), segments[i])
              THEN [segments[i] EXCEPT
                      !.transcript = JoinText(@, Head(transcriptSegments).text)]
              ELSE segments[i]],
         Tail(transcriptSegments))

\* the final filter keeping every segment
KeepsSegmentAlways(segments, i) == TRUE

\* the final filter with segment 0 treated like the others
KeepsSegmentStrict(segments, i) ==
  segments[i].representativeFramePath # << >> \/ segments[i].transcript # ""

KeepsSegment(segments, i) ==
  \/ i = 1
  \/ segments[i].representativeFramePath # << >> \/ segments[i].transcript # ""

RECURSIVE FilterSegments(_, _)
FilterSegments(segments, i) ==
  IF i > Len(segments) THEN << >>
  ELSE (IF KeepsSegment(segments, i) THEN << segments[i] >> ELSE << >>)
         \o FilterSegments(segments, i + 1)

\* the segments before the final filter
AllSegments(frames, transcriptSegments, durationSec, segmentDurationSec) ==
  LET effectiveDuration ==
        EffectiveDuration(frames, transcriptSegments, durationSec, segmentDurationSec)
  IN AssignTranscript(
       SetRepresentative(
         AssignFrames(GenerateSegments(effectiveDuration, segmentDurationSec),
                      frames, segmentDurationSec)),
       transcriptSegments)

BuildSegments(frames, transcriptSegments, durationSec, segmentDurationSec) ==
  FilterSegments(
    AllSegments(frames, transcriptSegments, durationSec, segmentDurationSec), 1)


(***************************************************************************)
(* State.                                                                  *)
(***************************************************************************)
VARIABLES
  content,    \* the source files on disk: path -> content
  sidecar,    \* the subtitle files on disk: path -> file
  tools,      \* what running ffprobe and ffmpeg does
  manifest,   \* manifest.json of each cache directory
  framesDir,  \* frames/ of each cache directory: file number -> request that wrote it
  audioFile,  \* whether audio.wav of each cache directory exists
  clock,      \* requests started so far
  envLeft,    \* changes the environment may still make
  quota,      \* requests each caller may still start
  pc,         \* where each request is
  req,        \* the arguments of each request
  loc,        \* the local variables of each request
  from,       \* the manifests each request found when it started
  intact,     \* the cache directories untouched since their manifest was saved
  segIn,      \* buildSegments alone: its arguments
  segStage,   \* buildSegments alone: how far it is
  segWork,    \* buildSegments alone: the segments array
  subIn,      \* parseSubtitle alone: the blocks of its argument
  subStage,   \* parseSubtitle alone: how far it is
  subPos,     \* parseSubtitle alone: the block the loop is at
  subOut,     \* parseSubtitle alone: the segments array
  optIn,      \* normalizeOptions alone: its argument
  optStored,  \* normalizeOptions alone: the options of a manifest on disk
  optStage,   \* normalizeOptions alone: how far it is
  optOut,     \* normalizeOptions alone: what it returned
  optSame,    \* normalizeOptions alone: what isSameOptions then returned
  cmdIn,      \* runCommand alone: the program and what its child process does
  cmdLeft,    \* runCommand alone: the events the child has yet to emit
  cmdStdout,  \* runCommand alone: the local stdout
  cmdStderr,  \* runCommand alone: the local stderr
  cmdPromise, \* runCommand alone: the promise returned
  cmdCalls,   \* runCommand alone: calls of resolve and reject so far
  convIn,     \* buildConversationUsageStats alone: its argument
  convStage,  \* buildConversationUsageStats alone: how far it is
  convPos,    \* buildConversationUsageStats alone: the message the loop is at
  convMap,    \* buildConversationUsageStats alone: conversationMap, in insertion order
  convOut,    \* buildConversationUsageStats alone: what it returned
  aggIn,      \* aggregateUsageStatistics alone: its arguments
  aggStage,   \* aggregateUsageStatistics alone: how far it is
  aggStats,   \* aggregateUsageStatistics alone: assistantStats so far
  aggOut,     \* aggregateUsageStatistics alone: what it returned
  requestQueues, \* the topic queues: topic id -> queue
  queues,     \* every PQueue made so far
  tasks,      \* every task added to a queue so far
  traceEnds   \* the topics endTrace was called for

diskVars == << content, sidecar, tools, manifest, framesDir, audioFile >>
pipelineVars == << content, sidecar, tools, manifest, framesDir, audioFile,
                   clock, envLeft, quota, pc, req, loc, from, intact >>
segVars == << segIn, segStage, segWork >>
subVars == << subIn, subStage, subPos, subOut >>
optVars == << optIn, optStored, optStage, optOut, optSame >>
cmdVars == << cmdIn, cmdLeft, cmdStdout, cmdStderr, cmdPromise, cmdCalls >>
convVars == << convIn, convStage, convPos, convMap, convOut >>
aggVars == << aggIn, aggStage, aggStats, aggOut >>
queueVars == << requestQueues, queues, tasks, traceEnds >>
rendererVars == << convVars, aggVars, queueVars >>
mainVars == << pipelineVars, segVars, subVars, optVars, cmdVars >>
outsidePipeline == << segVars, subVars, optVars, cmdVars, rendererVars >>
outsideSegments == << pipelineVars, subVars, optVars, cmdVars, rendererVars >>
outsideSubtitles == << pipelineVars, segVars, optVars, cmdVars, rendererVars >>
outsideOptions == << pipelineVars, segVars, subVars, cmdVars, rendererVars >>
outsideCommand == << pipelineVars, segVars, subVars, optVars, rendererVars >>
outsideConversations == << mainVars, aggVars, queueVars >>
outsideStatistics == << mainVars, convVars, queueVars >>
outsideQueues == << mainVars, convVars, aggVars >>
vars == << mainVars, rendererVars >>

Procs == {1, 2}

\* what running a tool does: it works, it is not in PATH, it exits with an
\* error, or (ffmpeg) it exits with code 0 having written nothing
ToolStates ==
  { [ffprobe |-> "ok", ffmpeg |-> "ok"],
    [ffprobe |-> "failing", ffmpeg |-> "noop"],
    [ffprobe |-> "ok", ffmpeg |-> "failing"],
    [ffprobe |-> "missing", ffmpeg |-> "missing"] }

(***************************************************************************)
(* The manifest file.                                                      *)
(***************************************************************************)
NoAudioFile == [exists |-> FALSE, size |-> 0]

AbsentManifest ==
  [kind |-> "absent", version |-> 0, shape |-> "", options |-> DEFAULT_INGEST_OPTIONS,
   result |-> NoResult]

\* JSON.stringify of {version, options, result}: every number of a result is
\* finite, so the text parses back to the same values
JsonManifest(version, options, result) ==
  [kind |-> "json", version |-> version, shape |-> "ok", options |-> options,
   result |-> result]

\* the whole disk, as the lookups read it
Disk ==
  [source |-> content, sidecar |-> sidecar, manifest |-> manifest,
   frames |-> framesDir, audio |-> audioFile]

\* fs.existsSync
ExistsSync(disk, path) ==
  IF "frame" \in DOMAIN path
    THEN path.dir \in Keys /\ path.frame \in DOMAIN disk.frames[path.dir]
  ELSE IF "file" \in DOMAIN path
    THEN path.dir \in Keys /\ disk.audio[path.dir].exists
  ELSE path \in DOMAIN disk.source \/ path \in DOMAIN disk.sidecar

\* isResultFilesReady taking a result without audio for an unfinished one
IsResultFilesReadyAudioRequired(disk, result) ==
  /\ \A i \in 1..Len(result.frames) : ExistsSync(disk, result.frames[i].path)
  /\ result.audio.present /\ ExistsSync(disk, result.audio.path)
  /\ ~(result.transcript.present /\ ~ExistsSync(disk, result.transcript.path))

IsResultFilesReady(disk, result) ==
  LET frameExists ==
        \A i \in 1..Len(result.frames) : ExistsSync(disk, result.frames[i].path)
  IN IF ~frameExists THEN FALSE
     ELSE IF result.audio.present /\ ~ExistsSync(disk, result.audio.path) THEN FALSE
     ELSE IF result.transcript.present /\ ~ExistsSync(disk, result.transcript.path)
       THEN FALSE
     ELSE TRUE

\* loadCachedResult from readFile on: a file that cannot be read or parsed
\* throws into the catch; so does the text `null` at parsed.version, a missing
\* options member inside isSameOptions and a missing result member inside
\* isResultFilesReady; a result that has its frames array passes
CheckManifest(disk, raw, options) ==
  IF raw.kind # "json" THEN NoResult
  ELSE IF raw.shape = "null" THEN NoResult
  ELSE IF raw.version # CACHE_VERSION THEN NoResult
  ELSE IF raw.shape = "noOptions" THEN NoResult
  ELSE IF ~IsSameOptions(raw.options, options) THEN NoResult
  ELSE IF raw.shape = "noResult" THEN NoResult
  ELSE IF ~IsResultFilesReady(disk, raw.result) THEN NoResult
  ELSE raw.result

\* loadCachedResult on an unchanging disk
LoadCachedResult(disk, key, options) ==
  IF disk.manifest[key].kind = "absent" THEN NoResult
  ELSE CheckManifest(disk, disk.manifest[key], options)

(***************************************************************************)
(* Requests.                                                               *)
(***************************************************************************)
NoFile == [id |-> "", type |-> "", path |-> NoPath, ext |-> ""]
NoRequest == [file |-> NoFile, options |-> NoOptions, run |-> 0]

NoLocals ==
  [sourcePath |-> NoPath, options |-> DEFAULT_INGEST_OPTIONS, sourceHash |-> "",
   raw |-> AbsentManifest, cached |-> NoResult, durationSec |-> 0, frames |-> << >>,
   transcript |-> NoTranscript, audio |-> NoAudio, segments |-> << >>,
   result |-> NoResult, calls |-> << >>, trail |-> << >>, outcome |-> "", error |-> ""]

NoFrom == [k \in Keys |-> AbsentManifest]

InitDisk ==
  /\ content = [p \in SrcPaths |-> 1]
  /\ sidecar = [p \in {SidecarPath(PathA, ".srt")} |-> GoodSubtitle]
  /\ manifest = [k \in Keys |-> AbsentManifest]
  /\ framesDir = [k \in Keys |-> [i \in {} |-> 0]]
  /\ audioFile = [k \in Keys |-> NoAudioFile]

InitProcs ==
  /\ clock = 0
  /\ pc = [p \in Procs |-> "idle"]
  /\ req = [p \in Procs |-> NoRequest]
  /\ loc = [p \in Procs |-> NoLocals]
  /\ from = [p \in Procs |-> NoFrom]
  /\ intact = {}

NoSegIn ==
  [frames |-> << >>, transcriptSegments |-> << >>, durationSec |-> 0,
   segmentDurationSec |-> 0]

SegOff ==
  /\ segIn = NoSegIn
  /\ segStage = "off"
  /\ segWork = << >>

SubOff ==
  /\ subIn = << >>
  /\ subStage = "off"
  /\ subPos = 0
  /\ subOut = << >>

OptOff ==
  /\ optIn = NoOptions
  /\ optStored = DEFAULT_INGEST_OPTIONS
  /\ optStage = "off"
  /\ optOut = DEFAULT_INGEST_OPTIONS
  /\ optSame = FALSE

Pending == [state |-> "pending"]
NoCommand == [command |-> "", events |-> << >>]

CmdOff ==
  /\ cmdIn = NoCommand
  /\ cmdLeft = << >>
  /\ cmdStdout = << >>
  /\ cmdStderr = << >>
  /\ cmdPromise = Pending
  /\ cmdCalls = 0

ConvOff ==
  /\ convIn = << >>
  /\ convStage = "off"
  /\ convPos = 0
  /\ convMap = << >>
  /\ convOut = << >>

NoStatistics == [assistants |-> << >>]

AggOff ==
  /\ aggIn = [assistants |-> << >>, topicMessagesById |-> << >>]
  /\ aggStage = "off"
  /\ aggStats = << >>
  /\ aggOut = NoStatistics

QueueOff ==
  /\ requestQueues = << >>
  /\ queues = << >>
  /\ tasks = << >>
  /\ traceEnds = {}

RendererOff ==
  /\ ConvOff
  /\ AggOff
  /\ QueueOff

\* one caller, one request after the other, in a changing environment
Init ==
  /\ InitDisk
  /\ InitProcs
  /\ SegOff
  /\ SubOff
  /\ OptOff
  /\ CmdOff
  /\ RendererOff
  /\ tools \in ToolStates
  /\ envLeft = MaxEnvSteps
  /\ quota = [p \in Procs |-> IF p = 1 THEN MaxRequests ELSE 0]

Idle == \A p \in Procs : pc[p] = "idle"

Fail(l, message) == [l EXCEPT !.outcome = "aborted", !.error = message]

\* ingestVideo up to the first await: the type check, then mkdir(cacheDir)
Start(p, file, options) ==
  /\ pc[p] = "idle"
  /\ quota[p] > 0
  /\ quota' = [quota EXCEPT ![p] = @ - 1]
  /\ clock' = clock + 1
  /\ req' = [req EXCEPT ![p] = [file |-> file, options |-> options, run |-> clock + 1]]
  /\ from' = [from EXCEPT ![p] = manifest]
  /\ IF file.type # FILE_TYPE_VIDEO
       THEN /\ pc' = [pc EXCEPT ![p] = "failed"]
            /\ loc' = [loc EXCEPT ![p] =
                         Fail([NoLocals EXCEPT !.trail = << "type" >>], "not a video")]
       ELSE /\ pc' = [pc EXCEPT ![p] = "resolve"]
            /\ loc' = [loc EXCEPT ![p] = [NoLocals EXCEPT !.trail = << "type" >>]]
  /\ UNCHANGED outsidePipeline
  /\ UNCHANGED << diskVars, envLeft, intact >>

\* resolveSourcePath looking in the files directory first
ResolveSourcePathFallbackFirst(disk, file) ==
  IF ExistsSync(disk, FallbackPath(file)) THEN FallbackPath(file)
  ELSE IF file.path # NoPath /\ ExistsSync(disk, file.path) THEN file.path
  ELSE NoPath

\* resolveSourcePath: the stored path if it exists, else the fallback path
ResolveSourcePath(disk, file) ==
  IF file.path # NoPath /\ ExistsSync(disk, file.path) THEN file.path
  ELSE IF ExistsSync(disk, FallbackPath(file)) THEN FallbackPath(file)
  ELSE NoPath

\* resolveSourcePath, then access(sourcePath, R_OK), normalizeOptions
Resolve(p) ==
  /\ pc[p] = "resolve"
  /\ LET sourcePath == ResolveSourcePath(Disk, req[p].file)
     IN IF sourcePath = NoPath
          THEN /\ pc' = [pc EXCEPT ![p] = "failed"]
               /\ loc' = [loc EXCEPT ![p] =
                            Fail([@ EXCEPT !.trail = Append(@, "resolve")],
                                 "Video file not found")]
        ELSE IF ~CanRead(sourcePath)
          THEN /\ pc' = [pc EXCEPT ![p] = "failed"]
               /\ loc' = [loc EXCEPT ![p] =
                            Fail([@ EXCEPT !.trail = Append(@, "resolve")],
                                 "EACCES: permission denied")]
          ELSE /\ pc' = [pc EXCEPT ![p] = "hash"]
               /\ loc' = [loc EXCEPT ![p].sourcePath = sourcePath,
                                     ![p].options = NormalizeOptions(req[p].options),
                                     ![p].trail = Append(@, "resolve") \o << "normalize" >>]
  /\ UNCHANGED outsidePipeline
  /\ UNCHANGED << diskVars, clock, envLeft, quota, req, from, intact >>

\* getFileHash digesting the path instead of the bytes
GetFileHashOfPath(disk, filePath) == IF filePath = PathA THEN "h1" ELSE "h2"

\* getFileHash: the digest of the bytes read from the path
GetFileHash(disk, filePath) == Sha256(disk.source[filePath])

\* getFileHash resolves; loadCachedResult starts: existsSync, then readFile
Hash(p) ==
  /\ pc[p] = "hash"
  /\ LET sourceHash == GetFileHash(Disk, loc[p].sourcePath)
     IN /\ loc' = [loc EXCEPT ![p].sourceHash = sourceHash,
                              ![p].raw = manifest[sourceHash],
                              ![p].trail = Append(@, "hash")]
        /\ pc' = [pc EXCEPT ![p] = "lookup"]
  /\ UNCHANGED outsidePipeline
  /\ UNCHANGED << diskVars, clock, envLeft, quota, req, from, intact >>

\* a lookup whose hit does not end the request
LookupThenProbe(p) ==
  /\ pc[p] = "lookup"
  /\ LET cached ==
           IF loc[p].raw.kind = "absent" THEN NoResult
           ELSE CheckManifest(Disk, loc[p].raw, loc[p].options)
     IN IF cached.present
          THEN /\ pc' = [pc EXCEPT ![p] = "probe"]
               /\ loc' = [loc EXCEPT ![p].cached = cached, ![p].result = cached,
                                     ![p].outcome = "hit",
                                     ![p].trail = Append(@, "lookup")]
          ELSE /\ pc' = [pc EXCEPT ![p] = "probe"]
               /\ loc' = [loc EXCEPT ![p].cached = cached,
                                     ![p].trail = Append(@, "lookup")]
  /\ UNCHANGED outsidePipeline
  /\ UNCHANGED << diskVars, clock, envLeft, quota, req, from, intact >>

\* readFile resolves (or the manifest was absent): the rest of loadCachedResult,
\* and on a hit the return
Lookup(p) ==
  /\ pc[p] = "lookup"
  /\ LET cached ==
           IF loc[p].raw.kind = "absent" THEN NoResult
           ELSE CheckManifest(Disk, loc[p].raw, loc[p].options)
     IN IF cached.present
          THEN /\ pc' = [pc EXCEPT ![p] = "returned"]
               /\ loc' = [loc EXCEPT ![p].cached = cached, ![p].result = cached,
                                     ![p].outcome = "hit",
                                     ![p].trail = Append(@, "lookup")]
          ELSE /\ pc' = [pc EXCEPT ![p] = "probe"]
               /\ loc' = [loc EXCEPT ![p].cached = cached,
                                     ![p].trail = Append(@, "lookup")]
  /\ UNCHANGED outsidePipeline
  /\ UNCHANGED << diskVars, clock, envLeft, quota, req, from, intact >>


(***************************************************************************)
(* The external tools.                                                     *)
(***************************************************************************)
\* runCommand resolving whatever the exit code
RunCommandIgnoringExit(command, state, stdout) ==
  IF state = "missing"
    THEN [ok |-> FALSE, error |-> command \o " is not available in PATH", stdout |-> ""]
    ELSE [ok |-> TRUE, error |-> "", stdout |-> stdout]

\* runCommand: how the promise settles for a tool in the given state
RunCommand(command, state, stdout) ==
  CASE state = "missing" ->
         [ok |-> FALSE, error |-> command \o " is not available in PATH", stdout |-> ""]
    [] state = "failing" ->
         [ok |-> FALSE, error |-> command \o " exited with code 1", stdout |-> ""]
    [] OTHER -> [ok |-> TRUE, error |-> "", stdout |-> stdout]

\* probeDuration degrading to one second rather than to zero
ProbeDurationFallbackOne(run) ==
  IF ~run.ok THEN 1
  ELSE LET duration == ParseFloat(run.stdout)
       IN IF ~NumberIsFinite(duration) \/ duration.n <= 0 THEN 1 ELSE duration.n

\* probeDuration, given how runCommand('ffprobe') settled
ProbeDuration(run) ==
  IF ~run.ok THEN 0
  ELSE LET duration == ParseFloat(run.stdout)
       IN IF ~NumberIsFinite(duration) \/ duration.n <= 0 THEN 0 ELSE duration.n

Probe(p) ==
  /\ pc[p] = "probe"
  /\ LET run == RunCommand("ffprobe", tools.ffprobe, ProbeStdout(content[loc[p].sourcePath]))
     IN loc' = [loc EXCEPT ![p].durationSec = ProbeDuration(run),
                           ![p].calls = Append(@, "ffprobe"),
                           ![p].trail = Append(@, "probe")]
  /\ pc' = [pc EXCEPT ![p] = "frames"]
  /\ UNCHANGED outsidePipeline
  /\ UNCHANGED << diskVars, clock, envLeft, quota, req, from, intact >>

\* extractFrames with maxFrames <= 0 returning past loadSidecarTranscript
SkipFramesAndTranscript(p) ==
  /\ pc[p] = "frames"
  /\ loc[p].options.maxFrames <= 0
  /\ loc' = [loc EXCEPT ![p].frames = << >>, ![p].trail = Append(@, "frames")]
  /\ pc' = [pc EXCEPT ![p] = "audio"]
  /\ UNCHANGED outsidePipeline
  /\ UNCHANGED << diskVars, clock, envLeft, quota, req, from, intact >>

\* extractFrames emptying the directory before it looks at maxFrames
SkipFramesAfterClearing(p) ==
  /\ pc[p] = "frames"
  /\ loc[p].options.maxFrames <= 0
  /\ framesDir' = [framesDir EXCEPT ![loc[p].sourceHash] = [i \in {} |-> 0]]
  /\ loc' = [loc EXCEPT ![p].frames = << >>, ![p].trail = Append(@, "frames")]
  /\ pc' = [pc EXCEPT ![p] = "transcript"]
  /\ UNCHANGED outsidePipeline
  /\ UNCHANGED << content, sidecar, tools, manifest, audioFile,
                  clock, envLeft, quota, req, from, intact >>

\* extractFrames with maxFrames <= 0: no frames, nothing touched
SkipFrames(p) ==
  /\ pc[p] = "frames"
  /\ loc[p].options.maxFrames <= 0
  /\ loc' = [loc EXCEPT ![p].frames = << >>, ![p].trail = Append(@, "frames")]
  /\ pc' = [pc EXCEPT ![p] = "transcript"]
  /\ UNCHANGED outsidePipeline
  /\ UNCHANGED << diskVars, clock, envLeft, quota, req, from, intact >>

\* extractFrames making the directory without emptying it first
KeepFrames(p) ==
  /\ pc[p] = "frames"
  /\ loc[p].options.maxFrames > 0
  /\ framesDir' = framesDir
  /\ pc' = [pc EXCEPT ![p] = "ffmpeg"]
  /\ intact' = intact \ {loc[p].sourceHash}
  /\ UNCHANGED outsidePipeline
  /\ UNCHANGED << content, sidecar, tools, manifest, audioFile,
                  clock, envLeft, quota, req, loc, from >>

\* extractFrames: rm -rf framesDir, mkdir framesDir
ClearFrames(p) ==
  /\ pc[p] = "frames"
  /\ loc[p].options.maxFrames > 0
  /\ framesDir' = [framesDir EXCEPT ![loc[p].sourceHash] = [i \in {} |-> 0]]
  /\ pc' = [pc EXCEPT ![p] = "ffmpeg"]
  /\ intact' = intact \ {loc[p].sourceHash}
  /\ UNCHANGED outsidePipeline
  /\ UNCHANGED << content, sidecar, tools, manifest, audioFile,
                  clock, envLeft, quota, req, loc, from >>

\* the directory after ffmpeg wrote frame files 1..n for request run
WriteFrames(dir, n, run) ==
  [i \in DOMAIN dir \cup 1..n |-> IF i \in 1..n THEN run ELSE dir[i]]

\* extractFrames: runCommand('ffmpeg', ... outputPattern) settles
FfmpegFrames(p) ==
  /\ pc[p] = "ffmpeg"
  /\ LET key == loc[p].sourceHash
         supply == FrameSupply(content[loc[p].sourcePath], loc[p].options)
         run == RunCommand("ffmpeg", tools.ffmpeg, "")
         called == [loc EXCEPT ![p].calls = Append(@, "ffmpeg")]
     IN IF run.ok
          THEN /\ framesDir' =
                    IF tools.ffmpeg = "noop" THEN framesDir
                    ELSE [framesDir EXCEPT ![key] = WriteFrames(@, supply, req[p].run)]
               /\ loc' = called
               /\ pc' = [pc EXCEPT ![p] = "readdir"]
          ELSE /\ \E written \in 0..supply :
                    /\ tools.ffmpeg = "missing" => written = 0
                    /\ framesDir' = [framesDir EXCEPT ![key] = WriteFrames(@, written, req[p].run)]
               /\ loc' = [called EXCEPT ![p] =
                            Fail([@ EXCEPT !.trail = Append(@, "frames")], run.error)]
               /\ pc' = [pc EXCEPT ![p] = "failed"]
  /\ intact' = intact \ {loc[p].sourceHash}
  /\ UNCHANGED outsidePipeline
  /\ UNCHANGED << content, sidecar, tools, manifest, audioFile,
                  clock, envLeft, quota, req, from >>

\* the numbers of a set in ascending order: readdir, then sort by name
RECURSIVE SortedNames(_)
SortedNames(S) ==
  IF S = {} THEN << >>
  ELSE LET m == CHOOSE x \in S : \A y \in S : x <= y
       IN << m >> \o SortedNames(S \ {m})

\* the frame list stamped from one interval on
FramesOfOneBased(key, frameFiles, options) ==
  [index \in 1..Len(frameFiles) |->
     [path |-> FramePath(key, frameFiles[index]),
      mime |-> "image/jpeg",
      timestampSec |-> index * options.frameIntervalSec]]

\* the frame list of the sorted file names, each stamped index * interval
FramesOf(key, frameFiles, options) ==
  [index \in 1..Len(frameFiles) |->
     [path |-> FramePath(key, frameFiles[index]),
      mime |-> "image/jpeg",
      timestampSec |-> (index - 1) * options.frameIntervalSec]]

\* extractFrames: readdir(framesDir) resolves
ReadFrames(p) ==
  /\ pc[p] = "readdir"
  /\ LET frameFiles == SortedNames(DOMAIN framesDir[loc[p].sourceHash])
     IN loc' = [loc EXCEPT ![p].frames = FramesOf(loc[p].sourceHash, frameFiles, loc[p].options),
                           ![p].trail = Append(@, "frames")]
  /\ pc' = [pc EXCEPT ![p] = "transcript"]
  /\ UNCHANGED outsidePipeline
  /\ UNCHANGED << diskVars, clock, envLeft, quota, req, from, intact >>

\* loadSidecarTranscript: one candidate
TryCandidate(disk, path, format) ==
  IF ~ExistsSync(disk, path) THEN NoTranscript
  ELSE IF ~disk.sidecar[path].readable THEN NoTranscript
  ELSE LET segments == ParseSubtitle(disk.sidecar[path].blocks)
       IN IF Len(segments) = 0 THEN NoTranscript
          ELSE [present |-> TRUE, path |-> path, format |-> format, segments |-> segments]

\* loadSidecarTranscript trying name.vtt before name.srt
LoadSidecarTranscriptVttFirst(disk, sourcePath) ==
  LET srt == TryCandidate(disk, SidecarPath(sourcePath, ".srt"), "srt")
      vtt == TryCandidate(disk, SidecarPath(sourcePath, ".vtt"), "vtt")
  IN IF vtt.present THEN vtt ELSE srt

\* loadSidecarTranscript: name.srt, then name.vtt
LoadSidecarTranscript(disk, sourcePath) ==
  LET srt == TryCandidate(disk, SidecarPath(sourcePath, ".srt"), "srt")
      vtt == TryCandidate(disk, SidecarPath(sourcePath, ".vtt"), "vtt")
  IN IF srt.present THEN srt ELSE vtt

Transcript(p) ==
  /\ pc[p] = "transcript"
  /\ loc' = [loc EXCEPT ![p].transcript = LoadSidecarTranscript(Disk, loc[p].sourcePath),
                        ![p].trail = Append(@, "transcript")]
  /\ pc' = [pc EXCEPT ![p] = "audio"]
  /\ UNCHANGED outsidePipeline
  /\ UNCHANGED << diskVars, clock, envLeft, quota, req, from, intact >>

\* extractAudio: rm(audioPath, {force: true})
ClearAudio(p) ==
  /\ pc[p] = "audio"
  /\ audioFile' = [audioFile EXCEPT ![loc[p].sourceHash] = NoAudioFile]
  /\ pc' = [pc EXCEPT ![p] = "ffmpegAudio"]
  /\ intact' = intact \ {loc[p].sourceHash}
  /\ UNCHANGED outsidePipeline
  /\ UNCHANGED << content, sidecar, tools, manifest, framesDir,
                  clock, envLeft, quota, req, loc, from >>

\* how runCommand('ffmpeg', ... audioPath) settles: ffmpeg exits with an error on
\* a source without an audio stream
AudioRun(state, c) ==
  IF state = "ok" /\ ~HasAudioStream(c)
    THEN RunCommand("ffmpeg", "failing", "")
    ELSE RunCommand("ffmpeg", state, "")

\* extractAudio: runCommand settles; a rejection is caught
FfmpegAudio(p) ==
  /\ pc[p] = "ffmpegAudio"
  /\ LET c == content[loc[p].sourcePath]
         run == AudioRun(tools.ffmpeg, c)
     IN IF run.ok
          THEN /\ audioFile' =
                    IF tools.ffmpeg = "noop" THEN audioFile
                    ELSE [audioFile EXCEPT ![loc[p].sourceHash] =
                            [exists |-> TRUE, size |-> AudioSize(c, loc[p].options)]]
               /\ loc' = [loc EXCEPT ![p].calls = Append(@, "ffmpeg")]
               /\ pc' = [pc EXCEPT ![p] = "stat"]
          ELSE /\ audioFile' = audioFile
               /\ loc' = [loc EXCEPT ![p].audio = NoAudio,
                                     ![p].calls = Append(@, "ffmpeg"),
                                     ![p].trail = Append(@, "audio")]
               /\ pc' = [pc EXCEPT ![p] = "build"]
  /\ intact' = intact \ {loc[p].sourceHash}
  /\ UNCHANGED outsidePipeline
  /\ UNCHANGED << content, sidecar, tools, manifest, framesDir,
                  clock, envLeft, quota, req, from >>

\* extractAudio returning the audio without stat(audioPath)
AudioOfUnchecked(key, file) ==
  [present |-> TRUE, path |-> AudioPath(key), mime |-> "audio/wav",
   sampleRate |-> 16000, channels |-> 1, size |-> file.size]

\* extractAudio after the tool succeeded: stat(audioPath); a failure is caught
AudioOf(key, file) ==
  IF file.exists
    THEN [present |-> TRUE, path |-> AudioPath(key), mime |-> "audio/wav",
          sampleRate |-> 16000, channels |-> 1, size |-> file.size]
    ELSE NoAudio

StatAudio(p) ==
  /\ pc[p] = "stat"
  /\ loc' = [loc EXCEPT ![p].audio = AudioOf(loc[p].sourceHash, audioFile[loc[p].sourceHash]),
                        ![p].trail = Append(@, "audio")]
  /\ pc' = [pc EXCEPT ![p] = "build"]
  /\ UNCHANGED outsidePipeline
  /\ UNCHANGED << diskVars, clock, envLeft, quota, req, from, intact >>

\* the VideoIngestResult ingestVideo assembles
ResultOf(file, l, createdAt) ==
  [present |-> TRUE, sourceFileId |-> file.id, sourceHash |-> l.sourceHash,
   sourcePath |-> l.sourcePath, createdAt |-> createdAt, cacheDir |-> l.sourceHash,
   durationSec |-> l.durationSec,
   frameIntervalSec |-> l.options.frameIntervalSec,
   segmentDurationSec |-> l.options.segmentDurationSec,
   frames |-> l.frames, segments |-> l.segments, audio |-> l.audio,
   transcript |-> l.transcript]

\* buildSegments and the assembly of the result; writeFile(manifest) starts
Build(p) ==
  /\ pc[p] = "build"
  /\ LET segments ==
           BuildSegments(loc[p].frames, loc[p].transcript.segments,
                         loc[p].durationSec, loc[p].options.segmentDurationSec)
         l == [loc[p] EXCEPT !.segments = segments, !.trail = Append(@, "segments")]
     IN loc' = [loc EXCEPT ![p] = [l EXCEPT !.result = ResultOf(req[p].file, l, req[p].run)]]
  /\ pc' = [pc EXCEPT ![p] = "save"]
  /\ UNCHANGED outsidePipeline
  /\ UNCHANGED << diskVars, clock, envLeft, quota, req, from, intact >>

\* saveManifest resolves; ingestVideo returns the result
\* writeFile throws when manifest.json is a directory; it overwrites the text
\* of a file that can be written but not read, and leaves its mode as it was
Save(p) ==
  /\ pc[p] = "save"
  /\ IF manifest[loc[p].sourceHash].kind = "directory"
       THEN /\ pc' = [pc EXCEPT ![p] = "failed"]
            /\ loc' = [loc EXCEPT ![p] =
                         Fail([@ EXCEPT !.trail = Append(@, "persist")],
                              "EISDIR: illegal operation on a directory, open")]
            /\ UNCHANGED << manifest, intact >>
       ELSE /\ manifest' = [manifest EXCEPT ![loc[p].sourceHash] =
                              [JsonManifest(CACHE_VERSION, loc[p].options, loc[p].result)
                                 EXCEPT !.kind = IF manifest[loc[p].sourceHash].kind = "writeOnly"
                                                   THEN "writeOnly" ELSE "json"]]
            /\ loc' = [loc EXCEPT ![p].outcome = "persisted",
                                  ![p].trail = Append(@, "persist")]
            /\ pc' = [pc EXCEPT ![p] = "returned"]
            /\ intact' = intact \cup {loc[p].sourceHash}
  /\ UNCHANGED outsidePipeline
  /\ UNCHANGED << content, sidecar, tools, framesDir, audioFile,
                  clock, envLeft, quota, req, from >>

\* the caller has the result, or the error
Finish(p) ==
  /\ pc[p] \in {"returned", "failed"}
  /\ pc' = [pc EXCEPT ![p] = "idle"]
  /\ req' = [req EXCEPT ![p] = NoRequest]
  /\ loc' = [loc EXCEPT ![p] = NoLocals]
  /\ from' = [from EXCEPT ![p] = NoFrom]
  /\ UNCHANGED outsidePipeline
  /\ UNCHANGED << diskVars, clock, envLeft, quota, intact >>


(***************************************************************************)
(* The environment, between two requests.                                  *)
(***************************************************************************)
Env(touched) ==
  /\ Idle
  /\ envLeft > 0
  /\ envLeft' = envLeft - 1
  /\ intact' = intact \ touched
  /\ UNCHANGED outsidePipeline
  /\ UNCHANGED << clock, quota, pc, req, loc, from >>

\* a source file is overwritten
EnvSource ==
  /\ Env({})
  /\ \E c \in Contents :
       c # content[PathA] /\ content' = [content EXCEPT ![PathA] = c]
  /\ UNCHANGED << sidecar, tools, manifest, framesDir, audioFile >>

\* a subtitle file is written or deleted
EnvSidecar ==
  /\ Env({})
  /\ \E path \in SidecarPaths :
       \/ /\ path \in DOMAIN sidecar
          /\ sidecar' = [q \in DOMAIN sidecar \ {path} |-> sidecar[q]]
       \/ \E f \in SubtitleFiles :
            /\ (IF path \in DOMAIN sidecar THEN sidecar[path] # f ELSE TRUE)
            /\ sidecar' = [q \in DOMAIN sidecar \cup {path} |->
                             IF q = path THEN f ELSE sidecar[q]]
  /\ UNCHANGED << content, tools, manifest, framesDir, audioFile >>

\* a frame file or audio.wav of a cache directory is deleted
EnvCacheFile ==
  \E key \in Keys :
    /\ Env({key})
    /\ \/ /\ \E i \in DOMAIN framesDir[key] :
               framesDir' = [framesDir EXCEPT ![key] =
                               [j \in DOMAIN framesDir[key] \ {i} |-> framesDir[key][j]]]
          /\ audioFile' = audioFile
       \/ /\ audioFile[key].exists
          /\ audioFile' = [audioFile EXCEPT ![key] = NoAudioFile]
          /\ framesDir' = framesDir
    /\ UNCHANGED << content, sidecar, tools, manifest >>

\* a manifest is deleted, truncated, or replaced by one of another version
\* or without its options
EnvManifest ==
  \E key \in Keys :
    /\ Env({key})
    /\ manifest[key].kind = "json" /\ manifest[key].version = CACHE_VERSION
    /\ manifest[key].shape = "ok"
    /\ \/ manifest' = [manifest EXCEPT ![key] = AbsentManifest]
       \/ manifest' = [manifest EXCEPT ![key].kind = "unparsable"]
       \/ manifest' = [manifest EXCEPT ![key].version = CACHE_VERSION + 1]
       \/ manifest' = [manifest EXCEPT ![key].shape = "noOptions"]
    /\ UNCHANGED << content, sidecar, tools, framesDir, audioFile >>

\* the steps of a request after its start
Steps(p) ==
  \/ Resolve(p)
  \/ Hash(p)
  \/ Lookup(p)
  \/ Probe(p)
  \/ SkipFrames(p)
  \/ ClearFrames(p)
  \/ FfmpegFrames(p)
  \/ ReadFrames(p)
  \/ Transcript(p)
  \/ ClearAudio(p)
  \/ FfmpegAudio(p)
  \/ StatAudio(p)
  \/ Build(p)
  \/ Save(p)

Request(p) ==
  \/ \E file \in Files, options \in RawOptionChoices : Start(p, file, options)
  \/ Steps(p)

Next ==
  \/ \E p \in Procs : Request(p) \/ Finish(p)
  \/ EnvSource
  \/ EnvSidecar
  \/ EnvCacheFile
  \/ EnvManifest

Spec == Init /\ [][Next]_vars

(***************************************************************************)
(* Two callers at once, one request each, with working tools and nothing   *)
(* else touching the disk.                                                 *)
(***************************************************************************)
InitRace ==
  /\ InitDisk
  /\ InitProcs
  /\ SegOff
  /\ SubOff
  /\ OptOff
  /\ CmdOff
  /\ RendererOff
  /\ tools = [ffprobe |-> "ok", ffmpeg |-> "ok"]
  /\ envLeft = 0
  /\ quota = [p \in Procs |-> 1]

NextRace == \E p \in Procs : Request(p)

SpecRace == InitRace /\ [][NextRace]_vars

(***************************************************************************)
(* One caller on varied disks: the sidecar files of v/a.mp4 in every        *)
(* combination, sources that moved to the files directory, cannot be read  *)
(* or last forty seconds; working tools, nothing else touching the disk.   *)
(***************************************************************************)
SidecarChoices == {GoodSubtitle, EmptySubtitle, UnreadableSubtitle, OtherSubtitle}

SidecarStates ==
  { [path \in present |-> files[path]] :
      present \in SUBSET SidecarPaths, files \in [SidecarPaths -> SidecarChoices] }

InitFiles ==
  /\ content = [path \in SrcPaths \cup {PathLong, PathLocked} \cup
                         { FallbackPath(file) : file \in { f \in MoreFiles : f.id \in {"1", "4", "8"} } } |->
                  IF path = PathLong THEN 4
                  ELSE IF path \in SrcPaths \cup {PathLocked} THEN 1 ELSE 2]
  /\ sidecar \in SidecarStates
  /\ manifest = [k \in Keys |-> AbsentManifest]
  /\ framesDir = [k \in Keys |-> [i \in {} |-> 0]]
  /\ audioFile = [k \in Keys |-> NoAudioFile]
  /\ InitProcs
  /\ SegOff
  /\ SubOff
  /\ OptOff
  /\ CmdOff
  /\ RendererOff
  /\ tools = [ffprobe |-> "ok", ffmpeg |-> "ok"]
  /\ envLeft = 0
  /\ quota = [p \in Procs |-> IF p = 1 THEN MaxFileRequests ELSE 0]

NextFiles ==
  \E p \in Procs :
    \/ \E file \in MoreFiles, options \in RawOptionChoices : Start(p, file, options)
    \/ Steps(p)
    \/ Finish(p)

SpecFiles == InitFiles /\ [][NextFiles]_vars

(***************************************************************************)
(* buildSegments alone, on every input within the bounds: frames stamped   *)
(* index * interval as extractFrames stamps them, cues sorted by start as  *)
(* parseSubtitle returns them.                                             *)
(***************************************************************************)
CueText(i) == CASE i = 1 -> "a" [] i = 2 -> "b" [] i = 3 -> "c" [] OTHER -> "d"

CueTimes == { t \in (0..MaxCueEnd) \X (0..MaxCueEnd) : t[1] < t[2] }

CueLists ==
  UNION { { [i \in 1..n |-> [startSec |-> f[i][1], endSec |-> f[i][2], text |-> CueText(i)]] :
              f \in { g \in [1..n -> CueTimes] :
                        \A i \in 1..(n - 1) : g[i][1] <= g[i + 1][1] } } :
          n \in 0..MaxCues }

SegInputs ==
  { [frames |-> FramesOf("h1", [i \in 1..n |-> i],
                         [DEFAULT_INGEST_OPTIONS EXCEPT !.frameIntervalSec = interval]),
     transcriptSegments |-> cues,
     durationSec |-> durationSec,
     segmentDurationSec |-> segmentDurationSec] :
      n \in 0..MaxFrameCount, interval \in 1..MaxInterval, cues \in CueLists,
      durationSec \in 0..MaxDuration, segmentDurationSec \in 1..MaxSegmentDuration }

InitSeg ==
  /\ InitDisk
  /\ InitProcs
  /\ tools = [ffprobe |-> "ok", ffmpeg |-> "ok"]
  /\ envLeft = 0
  /\ quota = [p \in Procs |-> 0]
  /\ segIn \in SegInputs
  /\ segStage = "called"
  /\ segWork = << >>
  /\ SubOff
  /\ OptOff
  /\ CmdOff
  /\ RendererOff

\* the effective duration, the segment count and the array of segments
SegGenerate ==
  /\ segStage = "called"
  /\ segWork' = GenerateSegments(
                  EffectiveDuration(segIn.frames, segIn.transcriptSegments,
                                    segIn.durationSec, segIn.segmentDurationSec),
                  segIn.segmentDurationSec)
  /\ segStage' = "generated"
  /\ UNCHANGED << segIn, outsideSegments >>

\* the loop over the frames, then the representative frames
SegFrames ==
  /\ segStage = "generated"
  /\ segWork' = SetRepresentative(
                  AssignFrames(segWork, segIn.frames, segIn.segmentDurationSec))
  /\ segStage' = "framed"
  /\ UNCHANGED << segIn, outsideSegments >>

\* the loop over the transcript segments
SegTranscript ==
  /\ segStage = "framed"
  /\ segWork' = AssignTranscript(segWork, segIn.transcriptSegments)
  /\ segStage' = "texted"
  /\ UNCHANGED << segIn, outsideSegments >>

\* the final filter
SegFilter ==
  /\ segStage = "texted"
  /\ segWork' = FilterSegments(segWork, 1)
  /\ segStage' = "returned"
  /\ UNCHANGED << segIn, outsideSegments >>

NextSeg == SegGenerate \/ SegFrames \/ SegTranscript \/ SegFilter

SpecSeg == InitSeg /\ [][NextSeg]_vars

(***************************************************************************)
(* Properties of the cache.  They are stated on the sequential             *)
(* specification, where the disk does not change while a request runs      *)
(* except by the request itself.                                           *)
(***************************************************************************)
\* the request has just left loadCachedResult: with a miss it is about to
\* probe, with a hit it has returned
Decided(p) == pc[p] = "probe" \/ (pc[p] = "returned" /\ loc[p].outcome = "hit")

IsHit(p) == pc[p] = "returned" /\ loc[p].outcome = "hit"

\* every path a stored result refers to
ReferencedPaths(result) ==
  { result.frames[i].path : i \in 1..Len(result.frames) }
    \cup (IF result.audio.present THEN {result.audio.path} ELSE {})
    \cup (IF result.transcript.present THEN {result.transcript.path} ELSE {})

\* the path names a file now on disk
OnDisk(path) ==
  \/ path \in DOMAIN content
  \/ path \in DOMAIN sidecar
  \/ \E k \in Keys : \E i \in DOMAIN framesDir[k] : path = FramePath(k, i)
  \/ \E k \in Keys : audioFile[k].exists /\ path = AudioPath(k)

\* the manifest exists and parses, is of the current version, stores the
\* requested options field by field, and every file it refers to exists
ValidFor(raw, options) ==
  /\ raw.kind = "json"
  /\ raw.shape = "ok"
  /\ raw.version = CACHE_VERSION
  /\ \A f \in OptionFields : raw.options[f] = options[f]
  /\ \A path \in ReferencedPaths(raw.result) : OnDisk(path)

\* the disk with one frame file deleted
DiskWithoutFrame(path) ==
  [Disk EXCEPT !.frames[path.dir] =
     [j \in DOMAIN framesDir[path.dir] \ {path.frame} |-> framesDir[path.dir][j]]]

\* C1: loadCachedResult returns the stored result exactly when the manifest
\* exists and parses, has the current version, stores the requested options
\* field by field and every frame, audio and transcript path of its result
\* exists; otherwise it misses.  From a hit, another value in any one option
\* field, or any one referenced frame file deleted, gives a miss.
C1_HitIffManifestValid ==
  \A p \in Procs :
    Decided(p) =>
      /\ IsHit(p) <=> ValidFor(loc[p].raw, loc[p].options)
      /\ IsHit(p) =>
           /\ loc[p].result = loc[p].raw.result
           /\ \A f \in OptionFields :
                ~CheckManifest(Disk, loc[p].raw,
                               [loc[p].options EXCEPT ![f] = @ + 1]).present
           /\ \A i \in 1..Len(loc[p].result.frames) :
                ~CheckManifest(DiskWithoutFrame(loc[p].result.frames[i].path),
                               loc[p].raw, loc[p].options).present

\* a hit on a result with frames, audio and a transcript
C1_Witness ==
  \E p \in Procs :
    /\ IsHit(p)
    /\ Len(loc[p].result.frames) > 0
    /\ loc[p].result.audio.present
    /\ loc[p].result.transcript.present

\* the request repeats an earlier one: the manifest of its cache directory was
\* saved by an earlier request for the same source path with the same
\* normalized options, and nothing in the cache directory changed since
Repeats(p) ==
  LET key == loc[p].sourceHash
  IN /\ pc[p] \in {"probe", "returned"}
     /\ key \in intact
     /\ manifest[key].kind = "json"
     /\ manifest[key].result.createdAt # req[p].run
     /\ manifest[key].options = loc[p].options
     /\ manifest[key].result.sourcePath = loc[p].sourcePath

\* served from the cache: no tool run, the manifest as it was, the stored result
ServedFromCache(p) ==
  /\ IsHit(p)
  /\ loc[p].calls = << >>
  /\ manifest = from[p]
  /\ loc[p].result = manifest[loc[p].sourceHash].result

\* C2 as stated: a second sequential call on the unchanged file with the same
\* normalized options and an untouched cache directory is a hit that runs no
\* tool, does not rewrite the manifest and returns the stored result.
C2_Original == \A p \in Procs : Repeats(p) => ServedFromCache(p)

\* C2: the same, provided the sidecar subtitle file the first call loaded,
\* if it loaded one, still exists.
C2_RepeatIsHit ==
  \A p \in Procs :
    ( /\ Repeats(p)
      /\ LET stored == manifest[loc[p].sourceHash].result
         IN stored.transcript.present => OnDisk(stored.transcript.path) )
      => ServedFromCache(p)

\* the second call is served from the cache of the first
C2_Witness ==
  \E p \in Procs :
    /\ Repeats(p)
    /\ ServedFromCache(p)
    /\ Len(loc[p].result.frames) > 0
    /\ loc[p].result.transcript.present

\* C3: the manifest is written only as the last step of a miss run whose
\* probe, frame extraction, transcript loading, audio extraction and segment
\* building all completed; a request that ends in an error, and a request
\* that is a hit, leaves every manifest as it found it.
C3_ManifestWrittenLast ==
  \A p \in Procs :
    pc[p] # "idle" =>
      IF loc[p].outcome = "persisted"
        THEN /\ pc[p] = "returned"
             /\ loc[p].error = ""
             /\ loc[p].trail = << "type", "resolve", "normalize", "hash", "lookup",
                                  "probe", "frames", "transcript", "audio",
                                  "segments", "persist" >>
             /\ manifest[loc[p].sourceHash] =
                  JsonManifest(CACHE_VERSION, loc[p].options, loc[p].result)
             /\ \A k \in Keys \ {loc[p].sourceHash} : manifest[k] = from[p][k]
        ELSE manifest = from[p]

\* a miss run has replaced the manifest it found
C3_Witness ==
  \E p \in Procs :
    /\ pc[p] = "returned"
    /\ loc[p].outcome = "persisted"
    /\ from[p][loc[p].sourceHash].kind = "json"
    /\ manifest[loc[p].sourceHash] # from[p][loc[p].sourceHash]

(***************************************************************************)
(* Properties of the steps of a miss run.                                  *)
(***************************************************************************)
InSeq(x, seq) == \E i \in 1..Len(seq) : seq[i] = x

Last(seq) == seq[Len(seq)]

\* C4: on a miss with maxFrames > 0, when the ffmpeg run of extractFrames
\* fails (not in PATH, or a non-zero exit), ingestVideo throws and returns no
\* result; a miss that does return has run ffmpeg to its end and lists every
\* frame file of the directory.
C4_FrameFailureAborts ==
  \A p \in Procs :
    /\ ( /\ InSeq("lookup", loc[p].trail) /\ ~loc[p].cached.present
         /\ loc[p].options.maxFrames > 0
         /\ InSeq("ffmpeg", loc[p].calls)
         /\ tools.ffmpeg \in {"failing", "missing"} )
         => /\ pc[p] = "failed"
            /\ loc[p].outcome = "aborted"
            /\ loc[p].error # ""
            /\ Last(loc[p].trail) = "frames"
            /\ ~loc[p].result.present
            /\ manifest = from[p]
    /\ ( /\ pc[p] = "returned" /\ loc[p].outcome = "persisted"
         /\ loc[p].options.maxFrames > 0 )
         => /\ tools.ffmpeg \in {"ok", "noop"}
            /\ loc[p].result.present
            /\ { loc[p].result.frames[i].path : i \in 1..Len(loc[p].result.frames) }
                 = { FramePath(loc[p].sourceHash, i) :
                       i \in DOMAIN framesDir[loc[p].sourceHash] }

\* ffmpeg failed after writing some frames, and the request was aborted
C4_Witness ==
  \E p \in Procs :
    /\ pc[p] = "failed"
    /\ loc[p].options.maxFrames > 0
    /\ InSeq("ffmpeg", loc[p].calls)
    /\ tools.ffmpeg = "failing"
    /\ DOMAIN framesDir[loc[p].sourceHash] # {}

\* the audio extraction of the request cannot succeed: ffmpeg is not in PATH,
\* exits with an error (always, or for want of an audio stream), or exits
\* with code 0 leaving no file to stat
AudioFails(p) ==
  \/ tools.ffmpeg \in {"missing", "failing", "noop"}
  \/ ~HasAudioStream(content[loc[p].sourcePath])

C6_ProbeDegradesToZero ==
  \A p \in Procs :
    InSeq("probe", loc[p].trail) =>
      /\ loc[p].durationSec =
           IF tools.ffprobe = "ok"
                /\ ProbeStdout(content[loc[p].sourcePath]) = "5.000000"
             THEN 5 ELSE 0
      /\ pc[p] = "failed" => Last(loc[p].trail) = "frames"
      /\ pc[p] = "returned" => /\ loc[p].outcome = "persisted"
                               /\ loc[p].result.durationSec = loc[p].durationSec

\* a request succeeded with duration 0 after ffprobe failed
C6_Witness ==
  \E p \in Procs :
    /\ pc[p] = "returned"
    /\ loc[p].outcome = "persisted"
    /\ tools.ffprobe \in {"missing", "failing"}
    /\ InSeq("ffprobe", loc[p].calls)
    /\ loc[p].result.durationSec = 0

(***************************************************************************)
(* Two requests at once.                                                   *)
(***************************************************************************)
\* what a request running alone returns, but for the creation time
AloneResult(p) ==
  LET l == loc[p]
      c == content[l.sourcePath]
      frames == FramesOf(l.sourceHash,
                         SortedNames(1..FrameSupply(c, l.options)), l.options)
      transcript == LoadSidecarTranscript(Disk, l.sourcePath)
      durationSec == ProbeDuration(RunCommand("ffprobe", "ok", ProbeStdout(c)))
  IN ResultOf(req[p].file,
              [l EXCEPT !.durationSec = durationSec, !.frames = frames,
                        !.transcript = transcript,
                        !.audio = AudioOf(l.sourceHash,
                                          [exists |-> TRUE,
                                           size |-> AudioSize(c, l.options)]),
                        !.segments = BuildSegments(frames, transcript.segments,
                                                   durationSec,
                                                   l.options.segmentDurationSec)],
              0)

\* two requests for the same source with the same options have both run the
\* pipeline to its end
BothPersisted(p, q) ==
  /\ p # q
  /\ pc[p] = "returned" /\ loc[p].outcome = "persisted"
  /\ pc[q] = "returned" /\ loc[q].outcome = "persisted"
  /\ req[p].file = req[q].file
  /\ loc[p].options = loc[q].options

\* C7: two concurrent requests for the same source that both miss end, under
\* every interleaving, with equivalent results, and the manifest on disk is
\* the one a request running alone would have written.
C7_ConcurrentRunsEquivalent ==
  \A p, q \in Procs :
    BothPersisted(p, q) =>
      /\ SameButCreatedAt(loc[p].result, loc[q].result)
      /\ SameButCreatedAt(loc[p].result, AloneResult(p))
      /\ SameButCreatedAt(manifest[loc[p].sourceHash].result, AloneResult(p))

(***************************************************************************)
(* The cache key.                                                          *)
(***************************************************************************)
\* C8: the cache key is a function of the bytes of the source alone.  Two
\* sources have the same key exactly when their bytes are the same; a request
\* for a source with the bytes and options of an entry saved for another
\* path, the entry's files in place, is a hit; a hit is always on an entry
\* made from the very bytes the source has now.
C8_KeyIsContentOnly ==
  /\ \A s1, s2 \in DOMAIN content :
       GetFileHash(Disk, s1) = GetFileHash(Disk, s2) <=> content[s1] = content[s2]
  /\ \A p \in Procs :
       /\ ( /\ pc[p] \in {"probe", "returned"}
            /\ \E k \in intact :
                 /\ manifest[k].kind = "json"
                 /\ manifest[k].result.createdAt # req[p].run
                 /\ manifest[k].result.sourcePath # loc[p].sourcePath
                 /\ manifest[k].result.sourceHash = Sha256(content[loc[p].sourcePath])
                 /\ manifest[k].options = loc[p].options
                 /\ \A path \in ReferencedPaths(manifest[k].result) : OnDisk(path) )
            => IsHit(p) /\ loc[p].calls = << >>
       /\ IsHit(p) => loc[p].result.sourceHash = Sha256(content[loc[p].sourcePath])
       /\ Decided(p) =>
            loc[p].raw = from[p][Sha256(content[loc[p].sourcePath])]

\* a request is served from the entry saved for a file of another id and path
C8_Witness ==
  \E p \in Procs :
    /\ IsHit(p)
    /\ loc[p].result.sourcePath # loc[p].sourcePath
    /\ loc[p].result.sourceFileId # req[p].file.id

(***************************************************************************)
(* The timeline segments.                                                  *)
(***************************************************************************)
Maximum(S) == CHOOSE x \in S : \A y \in S : y <= x

\* the largest of the probed duration, the last frame's timestamp, the
\* greatest cue end and the segment duration
EffectiveTotal(frames, transcriptSegments, durationSec, segmentDurationSec) ==
  Maximum({durationSec, segmentDurationSec}
            \cup (IF Len(frames) > 0 THEN {frames[Len(frames)].timestampSec} ELSE {})
            \cup { transcriptSegments[i].endSec : i \in 1..Len(transcriptSegments) })

\* max(1, ceil(total / width)) for total >= width > 0: the least count of
\* segments of that width that cover the total
IsCeilCount(n, total, width) ==
  /\ n >= 1
  /\ n * width >= total
  /\ (n - 1) * width < total

\* C9: the segments buildSegments generates, before its filter, number
\* max(1, ceil(effectiveDuration / segmentDurationSec)), the first starts at 0,
\* each next one starts where the one before ends, and the last ends at
\* effectiveDuration = max(probed duration, last frame timestamp, greatest
\* cue end, segmentDurationSec).
C9_GeneratedSegmentsTile ==
  segStage = "generated" =>
    LET total == EffectiveTotal(segIn.frames, segIn.transcriptSegments,
                                segIn.durationSec, segIn.segmentDurationSec)
        n == Len(segWork)
    IN /\ IsCeilCount(n, total, segIn.segmentDurationSec)
       /\ segWork[1].startSec = 0
       /\ \A i \in 1..n : /\ segWork[i].index = i - 1
                          /\ segWork[i].startSec < segWork[i].endSec
       /\ \A i \in 1..(n - 1) : segWork[i + 1].startSec = segWork[i].endSec
       /\ segWork[n].endSec = total

\* three or more segments generated, the last one cut short at the effective
\* duration
C9_Witness ==
  /\ segStage = "generated"
  /\ Len(segWork) >= 3
  /\ segWork[Len(segWork)].endSec < Len(segWork) * segIn.segmentDurationSec

\* ingestVideo has returned a result, computed or cached
HasResult(p) == pc[p] = "returned" /\ loc[p].result.present

ResultTotal(result) ==
  EffectiveTotal(result.frames, result.transcript.segments, result.durationSec,
                 result.segmentDurationSec)

\* C10 as stated: the segments ingestVideo returns are contiguous and
\* non-overlapping, index is 0-based ascending, and the last returned
\* segment ends at the effective total duration.
C10_Original ==
  \A p \in Procs :
    HasResult(p) =>
      LET segments == loc[p].result.segments
          n == Len(segments)
      IN /\ n >= 1
         /\ segments[1].index = 0
         /\ \A i \in 1..n : segments[i].startSec <= segments[i].endSec
         /\ \A i \in 1..(n - 1) :
              /\ segments[i].index < segments[i + 1].index
              /\ segments[i + 1].startSec = segments[i].endSec
         /\ segments[n].endSec = ResultTotal(loc[p].result)

\* C10: the segments ingestVideo returns do not overlap and are in ascending
\* order of index, from index 0; the segment of index i spans from
\* i * segmentDurationSec to min((i + 1) * segmentDurationSec, total); two
\* neighbours in the list are contiguous exactly when their indices are
\* consecutive; and the last returned segment ends at the effective total
\* duration exactly when the last generated segment was kept.
C10_ReturnedSegmentsOrdered ==
  \A p \in Procs :
    HasResult(p) =>
      LET segments == loc[p].result.segments
          n == Len(segments)
          width == loc[p].result.segmentDurationSec
          total == ResultTotal(loc[p].result)
      IN /\ n >= 1
         /\ segments[1].index = 0
         /\ \A i \in 1..n :
              /\ segments[i].startSec = segments[i].index * width
              /\ segments[i].endSec = Min((segments[i].index + 1) * width, total)
              /\ segments[i].startSec < segments[i].endSec
         /\ \A i \in 1..(n - 1) :
              /\ segments[i].index < segments[i + 1].index
              /\ segments[i].endSec <= segments[i + 1].startSec
              /\ segments[i + 1].startSec = segments[i].endSec
                   <=> segments[i + 1].index = segments[i].index + 1
         /\ segments[n].endSec <= total
         /\ segments[n].endSec = total
              <=> IsCeilCount(segments[n].index + 1, total, width)

\* a returned list without the last generated segment: it ends before the
\* effective total duration
C10_Witness ==
  \E p \in Procs :
    /\ HasResult(p)
    /\ Len(loc[p].result.segments) >= 2
    /\ loc[p].result.segments[Len(loc[p].result.segments)].endSec
         < ResultTotal(loc[p].result)

(***************************************************************************)
(* Properties of buildSegments on its own.                                 *)
(***************************************************************************)
HasFrameOrText(segment) ==
  segment.representativeFramePath # << >> \/ segment.transcript # ""

\* C11: the filter of buildSegments always returns the segment of index 0,
\* also with no frame and no cue; every other returned segment has a
\* representative frame or transcript text; and every generated segment of
\* index above 0 with a frame or text is returned.
C11_FilterKeepsFirstAndFilled ==
  [][ (segStage = "texted" /\ segStage' = "returned") =>
        /\ Len(segWork') >= 1
        /\ segWork'[1] = segWork[1]
        /\ segWork'[1].index = 0
        /\ \A j \in 1..Len(segWork') :
             /\ \E i \in 1..Len(segWork) : segWork'[j] = segWork[i]
             /\ segWork'[j].index = 0 \/ HasFrameOrText(segWork'[j])
        /\ \A i \in 1..Len(segWork) :
             (segWork[i].index > 0 /\ HasFrameOrText(segWork[i]))
               => \E j \in 1..Len(segWork') : segWork'[j] = segWork[i] ]_vars

\* returned: segment 0 without frame or text, a later segment dropped and a
\* later segment kept
C11_Witness ==
  /\ segStage = "returned"
  /\ ~HasFrameOrText(segWork[1])
  /\ Len(segWork) >= 2
  /\ segWork[Len(segWork)].index > Len(segWork) - 1

\* whole quotient of a by b, for a >= 0 and b > 0
IsFloorQuotient(q, a, b) == q * b <= a /\ a < (q + 1) * b

\* the places, segment and position, where framePaths hold the path
Holders(segments, path) ==
  { h \in (1..Len(segments)) \X (1..Len(segIn.frames)) :
      h[2] <= Len(segments[h[1]].framePaths)
        /\ segments[h[1]].framePaths[h[2]] = path }

\* the timestamp of the input frame of that path
StampOf(path) ==
  LET f == CHOOSE f \in 1..Len(segIn.frames) : segIn.frames[f].path = path
  IN segIn.frames[f].timestampSec

\* C12: buildSegments puts every input frame in exactly one segment, that of
\* index min(floor(timestampSec / segmentDurationSec), segmentCount - 1): no
\* frame is dropped, duplicated or out of range, a frame stamped
\* segmentCount * segmentDurationSec goes to the last segment, and a segment's
\* representative frame is the first, lowest-stamped, frame assigned to it.
C12_FramesAssignedOnce ==
  segStage \in {"framed", "texted", "returned"} =>
    LET total == EffectiveTotal(segIn.frames, segIn.transcriptSegments,
                                segIn.durationSec, segIn.segmentDurationSec)
        width == segIn.segmentDurationSec
        count == CHOOSE n \in 1..total : IsCeilCount(n, total, width)
    IN /\ \A f \in 1..Len(segIn.frames) :
            LET frame == segIn.frames[f]
                holders == Holders(segWork, frame.path)
            IN /\ Cardinality(holders) = 1
               /\ \A h \in holders :
                    LET index == segWork[h[1]].index
                    IN /\ index \in 0..(count - 1)
                       /\ IF frame.timestampSec >= count * width
                            THEN index = count - 1
                            ELSE IsFloorQuotient(index, frame.timestampSec, width)
       /\ \A i \in 1..Len(segWork) :
            LET paths == segWork[i].framePaths
            IN /\ \A k \in 1..Len(paths) :
                    \E f \in 1..Len(segIn.frames) : segIn.frames[f].path = paths[k]
               /\ \A k \in 2..Len(paths) : StampOf(paths[1]) < StampOf(paths[k])
               /\ segWork[i].representativeFramePath =
                    IF paths = << >> THEN << >> ELSE << paths[1] >>

\* a frame stamped exactly segmentCount * segmentDurationSec sits in the last
\* segment, returned
C12_Witness ==
  /\ segStage = "returned"
  /\ Len(segIn.frames) >= 2
  /\ LET last == segIn.frames[Len(segIn.frames)]
         n == Len(segWork)
     IN /\ last.timestampSec = (segWork[n].index + 1) * segIn.segmentDurationSec
        /\ segWork[n].framePaths # << >>
        /\ segWork[n].framePaths[Len(segWork[n].framePaths)] = last.path

RECURSIVE SpaceJoined(_)
SpaceJoined(texts) ==
  IF texts = << >> THEN ""
  ELSE IF Len(texts) = 1 THEN texts[1]
  ELSE texts[1] \o " " \o SpaceJoined(Tail(texts))

\* the texts of the cues that start before the segment ends and end after
\* it starts, in cue order
TextsOver(cues, segment) ==
  LET Over(cue) == cue.startSec < segment.endSec /\ cue.endSec > segment.startSec
      over == SelectSeq(cues, Over)
  IN [i \in 1..Len(over) |-> over[i].text]

\* C13: a cue's text is in a segment's transcript exactly when the cue starts
\* before the segment ends and ends after it starts; a cue across a boundary is
\* in both segments, one that only touches a boundary is not in the segment it
\* touches; the texts are joined by single spaces in cue order.
C13_TranscriptByOverlap ==
  segStage = "texted" =>
    \A i \in 1..Len(segWork) :
      segWork[i].transcript = SpaceJoined(TextsOver(segIn.transcriptSegments, segWork[i]))

\* one cue lies across a segment boundary, another ends where a segment
\* starts, and a segment has the texts of two cues
C13_Witness ==
  /\ segStage = "texted"
  /\ Len(segIn.transcriptSegments) = 2
  /\ \E i \in 1..(Len(segWork) - 1) :
       /\ \E c \in 1..2 :
            /\ segIn.transcriptSegments[c].startSec < segWork[i].endSec
            /\ segIn.transcriptSegments[c].endSec > segWork[i + 1].startSec
       /\ \E c \in 1..2 :
            segIn.transcriptSegments[c].endSec = segWork[i + 1].startSec
       /\ segWork[i].transcript = "a b"

(***************************************************************************)
(* Properties on the varied disks.                                         *)
(***************************************************************************)
\* C14: a 40-second source ingested with frameIntervalSec 2, maxFrames 12,
\* segmentDurationSec 20 and no transcript gives at most 12 frames, stamped
\* 0, 2, 4, ..., and exactly the two segments [0,20] and [20,40], each
\* listing exactly the frames stamped within it (a frame stamped 20 belongs
\* to the second).
C14_FortySecondExample ==
  \A p \in Procs :
    ( /\ HasResult(p)
      /\ MediaLength(content[loc[p].sourcePath]) = 40
      /\ loc[p].options = [frameIntervalSec |-> 2, maxFrames |-> 12,
                           segmentDurationSec |-> 20, maxAudioDurationSec |-> 600]
      /\ ~loc[p].result.transcript.present )
      => LET frames == loc[p].result.frames
             segments == loc[p].result.segments
             Within(lo, hi, last) ==
               { frames[i].path : i \in { j \in 1..Len(frames) :
                   /\ frames[j].timestampSec >= lo
                   /\ frames[j].timestampSec < hi
                        \/ (last /\ frames[j].timestampSec = hi) } }
             PathSet(paths) == { paths[k] : k \in 1..Len(paths) }
         IN /\ Len(frames) <= 12
            /\ \A i \in 1..Len(frames) : frames[i].timestampSec = 2 * (i - 1)
            /\ Len(segments) = 2
            /\ segments[1].startSec = 0 /\ segments[1].endSec = 20
            /\ segments[2].startSec = 20 /\ segments[2].endSec = 40
            /\ PathSet(segments[1].framePaths) = Within(0, 20, FALSE)
            /\ PathSet(segments[2].framePaths) = Within(20, 40, TRUE)
            /\ Len(segments[1].framePaths) + Len(segments[2].framePaths) = Len(frames)

\* the forty-second source has been ingested with the default options: twelve
\* frames, ten of them in the first segment
C14_Witness ==
  \E p \in Procs :
    /\ HasResult(p)
    /\ loc[p].sourcePath = PathLong
    /\ req[p].options = NoOptions
    /\ Len(loc[p].result.frames) = 12
    /\ Len(loc[p].result.segments[1].framePaths) = 10

\* the candidate exists, can be read and parses to at least one segment
Usable(path) ==
  /\ path \in DOMAIN sidecar
  /\ sidecar[path].readable
  /\ ParseSubtitle(sidecar[path].blocks) # << >>

\* C16: loadSidecarTranscript returns the first of name.srt, name.vtt that
\* exists, can be read and parses to at least one segment, so a valid .srt
\* wins over a .vtt; a candidate that is missing, unreadable or without
\* segments is passed over; with no such candidate there is no transcript;
\* transcript loading never fails the request.
C16_FirstUsableSidecar ==
  \A p \in Procs :
    InSeq("transcript", loc[p].trail) =>
      LET srt == SidecarPath(loc[p].sourcePath, ".srt")
          vtt == SidecarPath(loc[p].sourcePath, ".vtt")
          transcript == loc[p].transcript
      IN /\ pc[p] # "failed"
         /\ transcript.present <=> (Usable(srt) \/ Usable(vtt))
         /\ Usable(srt) =>
              /\ transcript.path = srt /\ transcript.format = "srt"
              /\ transcript.segments = ParseSubtitle(sidecar[srt].blocks)
         /\ (~Usable(srt) /\ Usable(vtt)) =>
              /\ transcript.path = vtt /\ transcript.format = "vtt"
              /\ transcript.segments = ParseSubtitle(sidecar[vtt].blocks)
         /\ pc[p] = "returned" => loc[p].result.transcript = transcript

\* the .srt exists but cannot be read, and the request returned with the
\* transcript of the .vtt
C16_Witness ==
  \E p \in Procs :
    /\ pc[p] = "returned"
    /\ SidecarPath(loc[p].sourcePath, ".srt") \in DOMAIN sidecar
    /\ ~sidecar[SidecarPath(loc[p].sourcePath, ".srt")].readable
    /\ loc[p].result.transcript.present
    /\ loc[p].result.transcript.format = "vtt"

\* the request cannot get at its source: not a video, at neither path, or
\* not readable where it was found
NoSource(p) ==
  LET file == req[p].file
      stored == file.path # NoPath /\ OnDisk(file.path)
  IN \/ file.type # "video"
     \/ ~stored /\ ~OnDisk(FallbackPath(file))
     \/ stored /\ ~CanRead(file.path)
     \/ ~stored /\ ~CanRead(FallbackPath(file))

\* C18: ingestVideo fails before the hash is computed, before any manifest is
\* read or written and before any tool runs when the file is not a video,
\* when neither the stored path nor {filesDir}/{id}{ext} exists, or when the
\* resolved path is not readable.  The stored path is used when it exists,
\* otherwise the fallback path.
C18_NoSourceFailsEarly ==
  \A p \in Procs :
    pc[p] # "idle" =>
      /\ NoSource(p) =>
           /\ pc[p] \in {"resolve", "failed"}
           /\ pc[p] = "failed" => loc[p].outcome = "aborted" /\ loc[p].error # ""
           /\ ~InSeq("hash", loc[p].trail) /\ ~InSeq("lookup", loc[p].trail)
           /\ loc[p].sourceHash = ""
           /\ loc[p].raw = AbsentManifest
           /\ loc[p].calls = << >>
           /\ ~loc[p].result.present
           /\ manifest = from[p]
      /\ ~NoSource(p) =>
           /\ pc[p] # "failed"
           /\ pc[p] # "resolve" =>
                loc[p].sourcePath =
                  IF req[p].file.path # NoPath /\ OnDisk(req[p].file.path)
                    THEN req[p].file.path
                    ELSE FallbackPath(req[p].file)

\* a request failed on a source that exists but cannot be read
C18_Witness ==
  \E p \in Procs :
    /\ pc[p] = "failed"
    /\ req[p].file.type = "video"
    /\ OnDisk(req[p].file.path)
    /\ ~CanRead(req[p].file.path)
    /\ Last(loc[p].trail) = "resolve"

(***************************************************************************)
(* parseSubtitle alone, block by block, on every short list of blocks.     *)
(***************************************************************************)
PipelineOff ==
  /\ InitDisk
  /\ InitProcs
  /\ tools = [ffprobe |-> "ok", ffmpeg |-> "ok"]
  /\ envLeft = 0
  /\ quota = [p \in Procs |-> 0]

SubInputs == UNION { [1..n -> RawBlocks] : n \in 0..MaxBlocks }

InitSub ==
  /\ PipelineOff
  /\ SegOff
  /\ subIn \in SubInputs
  /\ subStage = "loop"
  /\ subPos = 1
  /\ subOut = << >>
  /\ OptOff
  /\ CmdOff
  /\ RendererOff

\* one iteration of the loop over the blocks
SubBlock ==
  /\ subStage = "loop"
  /\ subPos <= Len(subIn)
  /\ LET b == ParseBlock(subIn[subPos])
     IN subOut' = IF WellFormed(b) THEN Append(subOut, TranscriptSegment(b)) ELSE subOut
  /\ subPos' = subPos + 1
  /\ UNCHANGED << subIn, subStage, outsideSubtitles >>

\* the sort and the return
SubSort ==
  /\ subStage = "loop"
  /\ subPos > Len(subIn)
  /\ subOut' = SortByStart(subOut)
  /\ subStage' = "returned"
  /\ UNCHANGED << subIn, subPos, outsideSubtitles >>

NextSub == SubBlock \/ SubSort

SpecSub == InitSub /\ [][NextSub]_vars

(***************************************************************************)
(* Claim C15                                                               *)
(***************************************************************************)
\* a timecode token reads as a time: two or three parts, each a number
Parses(token) ==
  /\ Len(token) \in {2, 3}
  /\ \A i \in 1..Len(token) : token[i].k = "num"

Seconds(token) ==
  LET n == Len(token)
  IN token[n].n + 60 * token[n - 1].n + (IF n = 3 THEN 3600 * token[1].n ELSE 0)

IsCue(raw) ==
  /\ raw.timeline
  /\ Parses(raw.start) /\ Parses(raw.end)
  /\ Seconds(raw.end) > Seconds(raw.start)
  /\ \E i \in 1..Len(raw.text) : ~raw.text[i].tag /\ raw.text[i].s # ""

CueOf(raw) ==
  [startSec |-> Seconds(raw.start), endSec |-> Seconds(raw.end),
   text |-> StripMarkup(raw.text)]

CuesBefore(pos) == { i \in 1..Len(subIn) : i < pos /\ IsCue(subIn[i]) }

\* C15: parseSubtitle returns exactly the well-formed cues of its input (a
\* timecode line, two timecodes that parse, end > start, text left after the
\* markup is stripped), each as often as it occurs, sorted ascending by
\* startSec whatever the input order; a discarded block does not stop the
\* loop: after every iteration the array holds one segment per well-formed
\* block passed so far. Every returned segment has endSec > startSec and a
\* non-empty text.
C15_OnlyWellFormedCuesSorted ==
  /\ subStage = "loop" => Len(subOut) = Cardinality(CuesBefore(subPos))
  /\ subStage = "returned" =>
       LET cues == CuesBefore(Len(subIn) + 1)
       IN /\ Len(subOut) = Cardinality(cues)
          /\ \A i \in cues :
               Cardinality({ j \in 1..Len(subOut) : subOut[j] = CueOf(subIn[i]) })
                 = Cardinality({ k \in cues : CueOf(subIn[k]) = CueOf(subIn[i]) })
          /\ \A j, k \in 1..Len(subOut) :
               j < k => subOut[j].startSec <= subOut[k].startSec
          /\ \A j \in 1..Len(subOut) :
               subOut[j].endSec > subOut[j].startSec /\ subOut[j].text # ""

\* a discarded block, then two cues given latest first, returned earliest first
C15_Witness ==
  /\ subStage = "returned"
  /\ Len(subIn) = 3
  /\ ~IsCue(subIn[1]) /\ IsCue(subIn[2]) /\ IsCue(subIn[3])
  /\ Seconds(subIn[2].start) > Seconds(subIn[3].start)
  /\ subOut = << CueOf(subIn[3]), CueOf(subIn[2]) >>

(***************************************************************************)
(* normalizeOptions alone, on every combination of field values, followed  *)
(* by the comparison with the options of a manifest written earlier.       *)
(***************************************************************************)
Infinity == [k |-> "inf", n |-> 0, d |-> 1]

\* whole numbers from -1 up, and what is not a finite number
RawValues == {Undef, NaN, Infinity} \cup { Num(n) : n \in -1..MaxOptionValue }

\* maxFrames may also come with a fraction: -1/2, 1/2, 5/2
RawMaxFrames == RawValues \cup {Frac(-1, 2), Frac(1, 2), Frac(5, 2)}

OptInputs ==
  { [frameIntervalSec |-> i, maxFrames |-> m, segmentDurationSec |-> s,
     maxAudioDurationSec |-> a] :
      i \in RawValues, m \in RawMaxFrames, s \in RawValues, a \in RawValues }

InitOpt ==
  /\ PipelineOff
  /\ SegOff
  /\ SubOff
  /\ CmdOff
  /\ RendererOff
  /\ optIn \in OptInputs
  /\ optStored \in { NormalizeOptions(o) : o \in RawOptionChoices }
  /\ optStage = "called"
  /\ optOut = DEFAULT_INGEST_OPTIONS
  /\ optSame = FALSE

OptNormalize ==
  /\ optStage = "called"
  /\ optOut' = NormalizeOptions(optIn)
  /\ optStage' = "normalized"
  /\ UNCHANGED << optIn, optStored, optSame, outsideOptions >>

\* loadCachedResult comparing the manifest's options with the normalized ones
OptCompare ==
  /\ optStage = "normalized"
  /\ optSame' = IsSameOptions(optStored, optOut)
  /\ optStage' = "compared"
  /\ UNCHANGED << optIn, optStored, optOut, outsideOptions >>

NextOpt == OptNormalize \/ OptCompare

SpecOpt == InitOpt /\ [][NextOpt]_vars

(***************************************************************************)
(* Claim C17                                                               *)
(***************************************************************************)
\* the value is a finite number, positive (not negative for maxFrames)
InRange(f, v) ==
  /\ v.k = "num"
  /\ IF f = "maxFrames" THEN v.n >= 0 ELSE v.n > 0

\* kept as it is; maxFrames rounded down to the integer q with q <= n/d < q + 1
Kept(f, v, out) ==
  IF f = "maxFrames"
    THEN out \in Int /\ out * v.d <= v.n /\ v.n < (out + 1) * v.d
    ELSE out * v.d = v.n

DefaultOf(f) ==
  CASE f = "frameIntervalSec" -> 2
    [] f = "maxFrames" -> 12
    [] f = "segmentDurationSec" -> 20
    [] f = "maxAudioDurationSec" -> 600

\* C17: normalizeOptions returns all four fields, with frameIntervalSec > 0,
\* maxFrames >= 0, segmentDurationSec > 0 and maxAudioDurationSec > 0; a
\* field that is missing, not finite or out of range comes back as its
\* default (2, 12, 20, 600), a valid one is kept, maxFrames rounded down and
\* 0 kept as 0; and the comparison with a manifest's options is made on the
\* normalized values: it answers yes exactly when they agree field by field.
C17_NormalizedOptions ==
  /\ optStage \in {"normalized", "compared"} =>
       /\ DOMAIN optOut = OptionFields
       /\ optOut.frameIntervalSec > 0 /\ optOut.maxFrames >= 0
       /\ optOut.segmentDurationSec > 0 /\ optOut.maxAudioDurationSec > 0
       /\ \A f \in OptionFields :
            IF InRange(f, optIn[f]) THEN Kept(f, optIn[f], optOut[f])
            ELSE optOut[f] = DefaultOf(f)
  /\ optStage = "compared" =>
       optSame = (\A f \in OptionFields :
                    IF InRange(f, optIn[f]) THEN Kept(f, optIn[f], optStored[f])
                    ELSE optStored[f] = DefaultOf(f))

\* maxFrames 0 kept, a negative interval, an infinite audio cap and a missing
\* segment duration replaced, and the manifest's options found equal
C17_Witness ==
  /\ optStage = "compared"
  /\ optIn.maxFrames = Num(0) /\ optOut.maxFrames = 0
  /\ optIn.frameIntervalSec = Num(-1) /\ optOut.frameIntervalSec = 2
  /\ optIn.maxAudioDurationSec = Infinity /\ optOut.maxAudioDurationSec = 600
  /\ optIn.segmentDurationSec = Undef /\ optOut.segmentDurationSec = 20
  /\ optSame

(***************************************************************************)
(* One caller on a disk whose cache directory for a.mp4 holds a manifest   *)
(* that is damaged: a directory or a write-only file under that name, text *)
(* that is not JSON, or JSON of another shape than {version, options,      *)
(* result}.                                                                *)
(***************************************************************************)
\* {"frames": []}: a result with nothing but an empty frames array
FramesOnlyResult == [NoResult EXCEPT !.present = TRUE]

StoredOptions == { NormalizeOptions(o) : o \in RawOptionChoices }

DamagedManifests ==
  { [AbsentManifest EXCEPT !.kind = kind] : kind \in {"directory", "writeOnly", "unparsable"} }
    \cup { [AbsentManifest EXCEPT !.kind = "json", !.shape = "null"],
           [AbsentManifest EXCEPT !.kind = "json", !.version = CACHE_VERSION,
                                  !.shape = "noOptions"] }
    \cup { [AbsentManifest EXCEPT !.kind = "json", !.version = CACHE_VERSION,
                                  !.shape = "noResult", !.options = options] :
             options \in StoredOptions }
    \cup { [AbsentManifest EXCEPT !.kind = "json", !.version = CACHE_VERSION,
                                  !.shape = "framesOnly", !.options = options,
                                  !.result = FramesOnlyResult] :
             options \in StoredOptions }

InitDamaged ==
  /\ content = [path \in SrcPaths |-> 1]
  /\ sidecar = [path \in {SidecarPath(PathA, ".srt")} |-> GoodSubtitle]
  /\ \E damaged \in DamagedManifests :
       manifest = [k \in Keys |-> IF k = Sha256(1) THEN damaged ELSE AbsentManifest]
  /\ framesDir = [k \in Keys |-> [i \in {} |-> 0]]
  /\ audioFile = [k \in Keys |-> NoAudioFile]
  /\ InitProcs
  /\ SegOff
  /\ SubOff
  /\ OptOff
  /\ CmdOff
  /\ RendererOff
  /\ tools = [ffprobe |-> "ok", ffmpeg |-> "ok"]
  /\ envLeft = 0
  /\ quota = [p \in Procs |-> IF p = 1 THEN MaxDamagedRequests ELSE 0]

NextDamaged ==
  \E p \in Procs :
    \/ \E file \in Files, options \in RawOptionChoices : Start(p, file, options)
    \/ Steps(p)
    \/ Finish(p)

SpecDamaged == InitDamaged /\ [][NextDamaged]_vars

(***************************************************************************)
(* Claim C19                                                               *)
(***************************************************************************)
\* the manifest the request found cannot be read, is not JSON, or is JSON
\* of another shape
Damaged(raw) ==
  \/ raw.kind \in {"directory", "writeOnly", "unparsable"}
  \/ raw.kind = "json" /\ raw.shape # "ok"

\* C19: a request that finds a manifest it cannot read, that is not valid
\* JSON or that has not the expected shape takes it for a miss and is never
\* failed by it: it is not a hit, it does not fail at the persist step, and
\* when it has returned the manifest on disk is a valid one under which a
\* lookup with the same options is a hit returning the same result.
C19_DamagedManifestIsMiss ==
  \A p \in Procs :
    (InSeq("hash", loc[p].trail) /\ Damaged(loc[p].raw)) =>
      /\ ~IsHit(p)
      /\ pc[p] = "failed" => Last(loc[p].trail) # "persist"
      /\ pc[p] = "returned" =>
           /\ ~Damaged(manifest[loc[p].sourceHash])
           /\ LoadCachedResult(Disk, loc[p].sourceHash, loc[p].options) = loc[p].result

(***************************************************************************)
(* runCommand alone, event by event.  A string is the list of its pieces,  *)
(* each piece the first n characters of a text, blank or not; the child    *)
(* process is the list of events it emits.                                 *)
(***************************************************************************)
Text(s, n) == << [s |-> s, n |-> n, blank |-> FALSE] >>
Blank(s, n) == << [s |-> s, n |-> n, blank |-> TRUE] >>

RECURSIVE Length(_)
Length(str) == IF str = << >> THEN 0 ELSE Head(str).n + Length(Tail(str))

RECURSIVE TrimStart(_)
TrimStart(str) ==
  IF str = << >> THEN << >>
  ELSE IF Head(str).blank THEN TrimStart(Tail(str)) ELSE str

RECURSIVE TrimEnd(_)
TrimEnd(str) ==
  IF str = << >> THEN << >>
  ELSE IF str[Len(str)].blank THEN TrimEnd(SubSeq(str, 1, Len(str) - 1)) ELSE str

Trim(str) == TrimEnd(TrimStart(str))

\* str.slice(0, count)
RECURSIVE Slice(_, _)
Slice(str, count) ==
  IF str = << >> \/ count <= 0 THEN << >>
  ELSE IF Head(str).n <= count
         THEN << Head(str) >> \o Slice(Tail(str), count - Head(str).n)
         ELSE << [Head(str) EXCEPT !.n = count] >>

\* what the tool writes in one go: a word, a line, a line of 1201 characters
Chunks ==
  { Text("usage", 5), Text("Invalid data", 12) \o Blank("\n", 1), Text("xxx...", 1201) }

DataEvent(stream, chunk) ==
  [type |-> "data", stream |-> stream, chunk |-> chunk, errno |-> "", code |-> 0,
   signal |-> ""]
ErrorEvent(errno) ==
  [type |-> "error", stream |-> "", chunk |-> << >>, errno |-> errno, code |-> 0,
   signal |-> ""]
\* code is null when signal names the signal that ended the child
CloseEvent(code, signal) ==
  [type |-> "close", stream |-> "", chunk |-> << >>, errno |-> "", code |-> code,
   signal |-> signal]

DataEvents == { DataEvent(stream, chunk) : stream \in {"stdout", "stderr"}, chunk \in Chunks }

\* the child runs, writes and ends; or spawn fails: 'error', then 'close'
\* with the negated errno
ChildRuns ==
  { data \o << close >> :
      data \in UNION { [1..n -> DataEvents] : n \in 0..MaxChunks },
      close \in {CloseEvent(0, ""), CloseEvent(1, ""), CloseEvent(0, "SIGKILL")} }
    \cup { << ErrorEvent("ENOENT"), CloseEvent(-2, "") >>,
           << ErrorEvent("EACCES"), CloseEvent(-13, "") >> }

CmdInputs ==
  { [command |-> command, events |-> events] :
      command \in {"ffprobe", "ffmpeg"}, events \in ChildRuns }

Fulfilled(value) == [state |-> "fulfilled", value |-> value]
Rejected(reason) == [state |-> "rejected", reason |-> reason]

\* a promise taking the outcome of the latest call
SettleAgain(promise, outcome) == outcome

\* resolve and reject take effect on a pending promise only
Settle(promise, outcome) == IF promise.state = "pending" THEN outcome ELSE promise

\* new Error(text + output), and the error spawn reports
NewError(text, output) == [code |-> "", text |-> text, output |-> output]
SpawnError(command, errno) ==
  [code |-> errno, text |-> "spawn " \o command \o " " \o errno, output |-> << >>]

CodeText(event) == IF event.signal # "" THEN "null" ELSE ToString(event.code)

\* the output cut at 1200 characters with nothing to mark the cut
ShortOutputUnmarked(output) ==
  IF Length(output) > 1200 THEN Slice(output, 1200) ELSE output

ShortOutput(output) ==
  IF Length(output) > 1200 THEN Slice(output, 1200) \o Text("...", 3) ELSE output

InitCmd ==
  /\ PipelineOff
  /\ SegOff
  /\ SubOff
  /\ OptOff
  /\ RendererOff
  /\ cmdIn \in CmdInputs
  /\ cmdLeft = cmdIn.events
  /\ cmdStdout = << >>
  /\ cmdStderr = << >>
  /\ cmdPromise = Pending
  /\ cmdCalls = 0

\* child.stdout.on('data') and child.stderr.on('data')
CmdData ==
  /\ cmdLeft # << >> /\ Head(cmdLeft).type = "data"
  /\ IF Head(cmdLeft).stream = "stdout"
       THEN cmdStdout' = cmdStdout \o Head(cmdLeft).chunk /\ UNCHANGED cmdStderr
       ELSE cmdStderr' = cmdStderr \o Head(cmdLeft).chunk /\ UNCHANGED cmdStdout
  /\ cmdLeft' = Tail(cmdLeft)
  /\ UNCHANGED << cmdIn, cmdPromise, cmdCalls, outsideCommand >>

\* child.on('error')
CmdError ==
  /\ cmdLeft # << >> /\ Head(cmdLeft).type = "error"
  /\ cmdPromise' =
       IF Head(cmdLeft).errno = "ENOENT"
         THEN Settle(cmdPromise,
                     Rejected(NewError(cmdIn.command \o " is not available in PATH", << >>)))
         ELSE Settle(cmdPromise, Rejected(SpawnError(cmdIn.command, Head(cmdLeft).errno)))
  /\ cmdCalls' = cmdCalls + 1
  /\ cmdLeft' = Tail(cmdLeft)
  /\ UNCHANGED << cmdIn, cmdStdout, cmdStderr, outsideCommand >>

\* child.on('close')
CmdClose ==
  /\ cmdLeft # << >> /\ Head(cmdLeft).type = "close"
  /\ cmdPromise' =
       IF Head(cmdLeft).signal = "" /\ Head(cmdLeft).code = 0
         THEN Settle(cmdPromise, Fulfilled([stdout |-> cmdStdout, stderr |-> cmdStderr]))
         ELSE LET output == Trim(IF cmdStderr # << >> THEN cmdStderr ELSE cmdStdout)
                  shortOutput == ShortOutput(output)
              IN Settle(cmdPromise,
                        Rejected(NewError(cmdIn.command \o " exited with code "
                                            \o CodeText(Head(cmdLeft)) \o ": ",
                                          shortOutput)))
  /\ cmdCalls' = cmdCalls + 1
  /\ cmdLeft' = Tail(cmdLeft)
  /\ UNCHANGED << cmdIn, cmdStdout, cmdStderr, outsideCommand >>

NextCmd == CmdData \/ CmdError \/ CmdClose

SpecCmd == InitCmd /\ [][NextCmd]_vars

(***************************************************************************)
(* Claim C20                                                               *)
(***************************************************************************)
\* what the child wrote to a stream, in order
RECURSIVE Written(_, _)
Written(events, stream) ==
  IF events = << >> THEN << >>
  ELSE (IF Head(events).type = "data" /\ Head(events).stream = stream
          THEN Head(events).chunk ELSE << >>) \o Written(Tail(events), stream)

SpawnFailed == cmdIn.events # << >> /\ cmdIn.events[1].type = "error"
CloseOf(events) == events[Len(events)]
ExitedZero == ~SpawnFailed /\ CloseOf(cmdIn.events).signal = "" /\ CloseOf(cmdIn.events).code = 0

SucceededWithOutput ==
  cmdPromise = Fulfilled([stdout |-> Written(cmdIn.events, "stdout"),
                          stderr |-> Written(cmdIn.events, "stderr")])

FailedWithExitCode ==
  /\ cmdPromise.state = "rejected"
  /\ cmdPromise.reason.code = ""
  /\ cmdPromise.reason.text =
       cmdIn.command \o " exited with code " \o CodeText(CloseOf(cmdIn.events)) \o ": "

FailedNotInPath ==
  /\ cmdPromise = Rejected(NewError(cmdIn.command \o " is not available in PATH", << >>))
  /\ cmdPromise.reason.text = RunCommand(cmdIn.command, "missing", "").error

FailedWithSpawnError ==
  /\ cmdPromise.state = "rejected"
  /\ cmdPromise.reason.code = cmdIn.events[1].errno
  /\ cmdPromise.reason.code # ""

\* C20 as stated: the promise is settled from the first 'error' or 'close'
\* event on, and once settled it shows one of three outcomes: the captured
\* stdout and stderr when the tool exited with code 0; an error with the exit
\* code when the tool closed otherwise; the error '<program> is not available
\* in PATH' when spawn failed, also after the close event that follows.
C20_Original ==
  /\ (cmdCalls = 0) = (cmdPromise = Pending)
  /\ cmdCalls >= 1 =>
       \/ ExitedZero /\ SucceededWithOutput
       \/ ~SpawnFailed /\ ~ExitedZero /\ FailedWithExitCode
       \/ SpawnFailed /\ FailedNotInPath

\* C20, amended: the promise is settled by the first 'error' or 'close' event
\* and never changes afterwards, with one of four outcomes: the captured
\* stdout and stderr when the tool exited with code 0; an error '<program>
\* exited with code <code>: <output>' when it closed otherwise (code null
\* after a signal); '<program> is not available in PATH' when spawn failed
\* with ENOENT, also after the close event that follows; and the spawn error
\* itself when spawn failed for another reason.
C20_SettledByFirstEvent ==
  /\ (cmdCalls = 0) = (cmdPromise = Pending)
  /\ cmdCalls >= 1 =>
       IF SpawnFailed
         THEN IF cmdIn.events[1].errno = "ENOENT" THEN FailedNotInPath
              ELSE FailedWithSpawnError
         ELSE IF ExitedZero THEN SucceededWithOutput
              ELSE FailedWithExitCode

\* spawn failed with ENOENT, the close event has followed and called reject a
\* second time: the promise still names the program
C20_Witness ==
  /\ cmdIn \in CmdInputs
  /\ cmdIn.events[1].errno = "ENOENT"
  /\ cmdLeft = << >>
  /\ cmdCalls = 2
  /\ FailedNotInPath

(***************************************************************************)
(* Claim C26                                                               *)
(***************************************************************************)
\* the output the close handler reports: stderr unless it is the empty
\* string, else stdout, without the white space around it
ReportedSource ==
  LET stderr == Written(cmdIn.events, "stderr")
      stdout == Written(cmdIn.events, "stdout")
      source == IF Length(stderr) > 0 THEN stderr ELSE stdout
      inner == { i \in 1..Len(source) : ~source[i].blank }
  IN IF inner = {} THEN << >>
     ELSE LET first == CHOOSE i \in inner : \A j \in inner : i <= j
              last == CHOOSE i \in inner : \A j \in inner : j <= i
          IN [i \in 1..(last - first + 1) |-> source[first + i - 1]]

\* `short` is the first characters of `long`
StartsWith(long, short) ==
  /\ Len(short) <= Len(long)
  /\ \A i \in 1..Len(short) :
       /\ short[i].s = long[i].s /\ short[i].blank = long[i].blank
       /\ IF i < Len(short) THEN short[i].n = long[i].n ELSE short[i].n <= long[i].n

\* `short` is the last characters of `long`, from the start of a piece on
EndsWith(long, short) ==
  /\ Len(short) <= Len(long)
  /\ \A i \in 1..Len(short) : short[i] = long[Len(long) - Len(short) + i]

ExitedNonZero ==
  /\ cmdIn \in CmdInputs /\ cmdLeft = << >>
  /\ ~SpawnFailed /\ CloseOf(cmdIn.events).signal = "" /\ CloseOf(cmdIn.events).code # 0

\* C26 as stated: after a non-zero exit the error carries the exit code and
\* at most 1200 characters, the end of the tool's output (stderr, or stdout
\* when stderr is empty).
C26_Original ==
  ExitedNonZero =>
    /\ FailedWithExitCode
    /\ Length(cmdPromise.reason.output) <= 1200
    /\ EndsWith(ReportedSource, cmdPromise.reason.output)

\* C26, amended: after a non-zero exit the error carries the exit code and
\* the trimmed output of the tool (stderr, or stdout when stderr is the
\* empty string): all of it when it has at most 1200 characters, otherwise
\* its first 1200 characters followed by "...", 1203 characters in all.
C26_ErrorCarriesHeadOfOutput ==
  ExitedNonZero =>
    /\ FailedWithExitCode
    /\ LET output == cmdPromise.reason.output
       IN IF Length(ReportedSource) <= 1200 THEN output = ReportedSource
          ELSE /\ Length(output) = 1203
               /\ output[Len(output)] = [s |-> "...", n |-> 3, blank |-> FALSE]
               /\ Length(SubSeq(output, 1, Len(output) - 1)) = 1200
               /\ StartsWith(ReportedSource, SubSeq(output, 1, Len(output) - 1))

\* stderr longer than 1200 characters after some stdout, exit code 1
C26_Witness ==
  /\ ExitedNonZero
  /\ Length(Written(cmdIn.events, "stdout")) > 0
  /\ Length(ReportedSource) > 1200
  /\ Length(cmdPromise.reason.output) = 1203

(***************************************************************************)
(* Claim C23                                                               *)
(***************************************************************************)
MissSteps ==
  << "type", "resolve", "normalize", "hash", "lookup", "probe", "frames",
     "transcript", "audio", "segments", "persist" >>

HitSteps == SubSeq(MissSteps, 1, 5)

StartOf(full, steps) ==
  /\ Len(steps) <= Len(full)
  /\ \A i \in 1..Len(steps) : steps[i] = full[i]

\* C23: the steps of a request are taken in the order type check, source
\* resolution, option normalization, content hash, cache lookup, and on a
\* miss duration probe, frame extraction, transcript loading, audio
\* extraction, segment building, manifest persist; a hit returns right after
\* the lookup; segment building starts only when frame extraction, transcript
\* loading and audio extraction are done; and a request that reached the
\* lookup and has ended is exactly one of Hit (returned after the lookup),
\* Persisted (returned after all the steps) or Aborted (failed).
C23_StepsInOrder ==
  \A p \in Procs :
    pc[p] # "idle" =>
      /\ StartOf(MissSteps, loc[p].trail)
      /\ loc[p].cached.present => loc[p].trail = HitSteps /\ IsHit(p)
      /\ pc[p] = "build" => Last(loc[p].trail) = "audio"
      /\ (InSeq("lookup", loc[p].trail) /\ pc[p] \in {"returned", "failed"}) =>
           /\ loc[p].outcome \in {"hit", "persisted", "aborted"}
           /\ loc[p].outcome = "hit" <=>
                (pc[p] = "returned" /\ loc[p].trail = HitSteps)
           /\ loc[p].outcome = "persisted" <=>
                (pc[p] = "returned" /\ loc[p].trail = MissSteps)
           /\ loc[p].outcome = "aborted" <=> pc[p] = "failed"

\* a miss run that went through every step, its audio extraction having failed
C23_Witness ==
  \E p \in Procs :
    /\ pc[p] = "returned"
    /\ loc[p].outcome = "persisted"
    /\ loc[p].trail = MissSteps
    /\ ~loc[p].result.audio.present
    /\ Len(loc[p].result.segments) > 0

(***************************************************************************)
(* Claim C24                                                               *)
(***************************************************************************)
\* extractFrames has returned a list for a request with maxFrames > 0
FramesExtracted(p) ==
  /\ InSeq("frames", loc[p].trail)
  /\ ~(pc[p] = "failed" /\ Last(loc[p].trail) = "frames")
  /\ loc[p].options.maxFrames > 0

\* C24: when extractFrames succeeds with maxFrames > 0 and nothing else
\* writes to the frames directory, every frame of the list it returns is a
\* file this run wrote (no file of an earlier run is left in the directory),
\* the list has at most maxFrames entries, and its i-th entry (from 0, in
\* ascending order of file name) is stamped i * frameIntervalSec, so that the
\* stamps are strictly ascending.
C24_FramesOfThisRunOnly ==
  \A p \in Procs :
    FramesExtracted(p) =>
      LET frames == loc[p].frames
          dir == framesDir[loc[p].sourceHash]
      IN /\ Len(frames) <= loc[p].options.maxFrames
         /\ \A i \in 1..Len(frames) :
              /\ frames[i].path.dir = loc[p].sourceHash
              /\ frames[i].path.frame \in DOMAIN dir
              /\ dir[frames[i].path.frame] = req[p].run
              /\ frames[i].timestampSec = (i - 1) * loc[p].options.frameIntervalSec
         /\ \A i, j \in 1..Len(frames) :
              i < j => /\ frames[i].path.frame < frames[j].path.frame
                       /\ frames[i].timestampSec < frames[j].timestampSec
         /\ DOMAIN dir = { frames[i].path.frame : i \in 1..Len(frames) }

\* the second run on a directory where the first, with a greater maxFrames,
\* had left three frames: it lists its own two
C24_Witness ==
  \E p \in Procs :
    /\ FramesExtracted(p)
    /\ req[p].run = 2
    /\ from[p][loc[p].sourceHash].kind = "json"
    /\ Len(from[p][loc[p].sourceHash].result.frames) = 3
    /\ Len(loc[p].frames) = 2

(***************************************************************************)
(* Claim C25                                                               *)
(***************************************************************************)
\* a request under way whose normalized maxFrames is 0
WithoutFrames(p) ==
  /\ pc[p] # "idle"
  /\ InSeq("normalize", loc[p].trail)
  /\ loc[p].options.maxFrames = 0

\* C25: with a normalized maxFrames of 0, extractFrames returns the empty
\* list in one step, runs no tool and leaves the frames directory as it is
\* (no step of such a request changes a frames directory); after the lookup
\* such a request does not fail, also when ffmpeg and ffprobe are not in
\* PATH: it returns a result with no frames and, the tool missing, no audio.
C25_NoFramesNoTool ==
  /\ [][\A p \in Procs :
          WithoutFrames(p) =>
            /\ framesDir' = framesDir
            /\ pc[p] = "frames" =>
                 /\ pc'[p] = "transcript"
                 /\ loc'[p].frames = << >>
                 /\ loc'[p].calls = loc[p].calls]_vars
  /\ [](\A p \in Procs :
          WithoutFrames(p) =>
            /\ (InSeq("lookup", loc[p].trail) => pc[p] # "failed")
            /\ (loc[p].outcome = "persisted" =>
                  /\ loc[p].result.frames = << >>
                  /\ tools.ffmpeg = "missing" => ~loc[p].result.audio.present))

\* ffmpeg is not in PATH and the request has returned: no frames, no audio
C25_Witness ==
  \E p \in Procs :
    /\ WithoutFrames(p)
    /\ tools.ffmpeg = "missing"
    /\ pc[p] = "returned" /\ loc[p].outcome = "persisted"
    /\ loc[p].result.frames = << >>
    /\ ~loc[p].result.audio.present
    /\ loc[p].result.transcript.present

(***************************************************************************)
(* One caller, several requests for a.mp4 with varying options, the tools  *)
(* working in one request and failing or missing in another, the sidecar   *)
(* subtitle files coming and going.                                        *)
(***************************************************************************)
\* between two requests ffmpeg / ffprobe start or stop working
EnvTools ==
  /\ Env({})
  /\ \E t \in ToolStates : t # tools /\ tools' = t
  /\ UNCHANGED << content, sidecar, manifest, framesDir, audioFile >>

InitStale ==
  /\ InitDisk
  /\ InitProcs
  /\ SegOff
  /\ SubOff
  /\ OptOff
  /\ CmdOff
  /\ RendererOff
  /\ tools = [ffprobe |-> "ok", ffmpeg |-> "ok"]
  /\ envLeft = MaxToolChanges
  /\ quota = [p \in Procs |-> IF p = 1 THEN MaxStaleRequests ELSE 0]

NextStale ==
  \/ \E p \in Procs :
       \/ \E file \in { f \in Files : f.id = "1" }, options \in RawOptionChoices :
            Start(p, file, options)
       \/ Steps(p)
       \/ Finish(p)
  \/ EnvTools
  \/ EnvSidecar

SpecStale == InitStale /\ [][NextStale]_vars

(***************************************************************************)
(* Claim C27                                                               *)
(***************************************************************************)
\* C27: whenever a request is a cache hit, every frame file the returned
\* result refers to was written by the run that persisted the manifest (the
\* run the result's createdAt names).
C27_HitFramesFromPersistingRun ==
  \A p \in Procs :
    IsHit(p) =>
      \A i \in 1..Len(loc[p].result.frames) :
        LET path == loc[p].result.frames[i].path
        IN /\ path.frame \in DOMAIN framesDir[path.dir]
           /\ framesDir[path.dir][path.frame] = loc[p].result.createdAt

(***************************************************************************)
(* Claim C28                                                               *)
(***************************************************************************)
Degraded(result) == result.present /\ (~result.audio.present \/ result.durationSec = 0)

\* the request has looked up the cache and found the manifest an earlier run
\* persisted for the same content and options, with a degraded result
FoundDegraded(p) ==
  LET found == from[p][loc[p].sourceHash]
  IN /\ pc[p] \notin {"idle", "failed"}
     /\ InSeq("lookup", loc[p].trail)
     /\ found.kind = "json" /\ found.shape = "ok" /\ found.version = CACHE_VERSION
     /\ found.options = loc[p].options
     /\ found.result.createdAt # req[p].run
     /\ Degraded(found.result)

ServedAsFound(p) ==
  /\ IsHit(p)
  /\ loc[p].result = from[p][loc[p].sourceHash].result
  /\ loc[p].calls = << >>

PersistedAsReturned(p) ==
  loc[p].outcome = "persisted" =>
    manifest[loc[p].sourceHash] =
      JsonManifest(CACHE_VERSION, loc[p].options, loc[p].result)

\* C28 as stated: a run that succeeds without audio or with durationSec 0
\* persists that result, and every later request for the same content and
\* options is a hit returning it without running a tool.
C28_Original ==
  \A p \in Procs :
    /\ PersistedAsReturned(p)
    /\ FoundDegraded(p) => ServedAsFound(p)

\* C28, amended: a run that succeeds without audio or with durationSec 0
\* persists that result, and a later request for the same content and
\* options that finds this manifest is a hit returning it without running a
\* tool, also when the tools work by now, provided every file the stored
\* result refers to (frames, sidecar transcript) still exists.
C28_DegradedResultIsCached ==
  \A p \in Procs :
    /\ PersistedAsReturned(p)
    /\ ( /\ FoundDegraded(p)
         /\ \A path \in ReferencedPaths(from[p][loc[p].sourceHash].result) : OnDisk(path) )
       => ServedAsFound(p)

\* both tools work by now and the source has an audio stream, yet the
\* request returns the stored result without audio and with durationSec 0
C28_Witness ==
  \E p \in Procs :
    /\ FoundDegraded(p)
    /\ ServedAsFound(p)
    /\ tools = [ffprobe |-> "ok", ffmpeg |-> "ok"]
    /\ HasAudioStream(content[loc[p].sourcePath])
    /\ ~loc[p].result.audio.present
    /\ loc[p].result.durationSec = 0


(***************************************************************************)
(* The source a result names.                                              *)
(***************************************************************************)
\* C29: every returned result, hit or miss, describes the requested source:
\* its sourceFileId is the id of the file passed in, its sourcePath the path
\* resolved for this request and its sourceHash the hash of that file's
\* content.
C29_ResultNamesRequestedSource ==
  \A p \in Procs :
    pc[p] = "returned" =>
      /\ loc[p].result.sourceFileId = req[p].file.id
      /\ loc[p].result.sourcePath = loc[p].sourcePath
      /\ loc[p].result.sourceHash = Sha256(content[loc[p].sourcePath])

(***************************************************************************)
(* The usage statistics: conversations of a topic.                         *)
(***************************************************************************)
MaxMessages == 3

\* `x ?? fallback` on a token count
OrElse(x, fallback) == IF x.k = "undef" THEN fallback ELSE x.n

NoUsage ==
  [present |-> FALSE, prompt_tokens |-> Undef, completion_tokens |-> Undef,
   total_tokens |-> Undef]
UsageOf(prompt, completion, total) ==
  [present |-> TRUE, prompt_tokens |-> prompt, completion_tokens |-> completion,
   total_tokens |-> total]

\* a message; askId "" stands for a message without askId, createdAt is the
\* rank of its ISO timestamp
Message(id, role, askId, usage, createdAt) ==
  [id |-> id, role |-> role, askId |-> askId, usage |-> usage, createdAt |-> createdAt]

CreateEmptySummary ==
  [promptTokens |-> 0, completionTokens |-> 0, totalTokens |-> 0,
   messageCount |-> 0, messagesWithUsage |-> 0]

SummaryFields == DOMAIN CreateEmptySummary

NormalizeUsage(usage) ==
  LET promptTokens == Max(0, OrElse(usage.prompt_tokens, 0))
      completionTokens == Max(0, OrElse(usage.completion_tokens, 0))
      totalTokens == Max(0, OrElse(usage.total_tokens, promptTokens + completionTokens))
  IN [promptTokens |-> promptTokens, completionTokens |-> completionTokens,
      totalTokens |-> totalTokens]

AddMessageUsage(summary, message) ==
  LET usage == NormalizeUsage(message.usage)
  IN [summary EXCEPT !.promptTokens = @ + usage.promptTokens,
                     !.completionTokens = @ + usage.completionTokens,
                     !.totalTokens = @ + usage.totalTokens,
                     !.messageCount = @ + 1,
                     !.messagesWithUsage = @ + (IF message.usage.present THEN 1 ELSE 0)]

\* mergeSummary leaving messagesWithUsage of the target as it is
MergeSummaryWithoutUsageCount(target, source) ==
  [target EXCEPT !.promptTokens = @ + source.promptTokens,
                 !.completionTokens = @ + source.completionTokens,
                 !.totalTokens = @ + source.totalTokens,
                 !.messageCount = @ + source.messageCount]

MergeSummary(target, source) ==
  [target EXCEPT !.promptTokens = @ + source.promptTokens,
                 !.completionTokens = @ + source.completionTokens,
                 !.totalTokens = @ + source.totalTokens,
                 !.messageCount = @ + source.messageCount,
                 !.messagesWithUsage = @ + source.messagesWithUsage]

\* getConversationKey taking the askId of a message of any role
GetConversationKeyAnyRole(message) ==
  IF message.askId # "" THEN message.askId ELSE message.id

GetConversationKey(message) ==
  IF message.role = "assistant" /\ message.askId # "" THEN message.askId ELSE message.id

\* conversationMap.get(key): the place of the key in insertion order, 0 when
\* the map has no such key
MapGet(map, key) ==
  IF \E i \in 1..Len(map) : map[i].id = key
  THEN CHOOSE i \in 1..Len(map) : map[i].id = key
  ELSE 0

\* the body of the loop over the messages
ConversationLoop(map, message) ==
  LET key == GetConversationKey(message)
      found == MapGet(map, key)
      created == [id |-> key, startedAt |-> message.createdAt,
                  updatedAt |-> message.createdAt] @@ CreateEmptySummary
      set == IF found = 0 THEN Append(map, created) ELSE map
      at == IF found = 0 THEN Len(set) ELSE found
      added == AddMessageUsage(set[at], message)
      conversation ==
        [added EXCEPT !.updatedAt = message.createdAt,
                      !.startedAt = IF @ = 0 \/ message.createdAt < @
                                    THEN message.createdAt ELSE @]
  IN [set EXCEPT ![at] = conversation]

\* Array.from(conversationMap.values()).map(...)
WithIndex(map) == [i \in 1..Len(map) |-> map[i] @@ [index |-> i]]

RECURSIVE ConversationMapOf(_)
ConversationMapOf(messages) ==
  IF messages = << >> THEN << >>
  ELSE ConversationLoop(ConversationMapOf(SubSeq(messages, 1, Len(messages) - 1)),
                        messages[Len(messages)])

BuildConversationUsageStats(messages) == WithIndex(ConversationMapOf(messages))

MessageId(i) == "m" \o ToString(i)

\* role and askId of a message: a user message, an assistant message without
\* askId, an answer to the first or to the second message, a user message
\* that carries an askId
MessageKinds ==
  { [role |-> "user", askId |-> ""], [role |-> "assistant", askId |-> ""],
    [role |-> "assistant", askId |-> "m1"], [role |-> "assistant", askId |-> "m2"],
    [role |-> "user", askId |-> "m1"] }

\* no usage, a usage without total_tokens, a usage with a negative count
Usages ==
  { NoUsage, UsageOf(Num(1), Num(2), Undef), UsageOf(Num(0 - 1), Num(1), Num(5)) }

\* a list of messages of distinct ids, oldest first or newest first
ConvInput(n, kinds, usages, ascending) ==
  [i \in 1..n |->
     Message(MessageId(i), kinds[i].role, kinds[i].askId, usages[i],
             IF ascending THEN i ELSE n + 1 - i)]

MainOff ==
  /\ PipelineOff
  /\ SegOff
  /\ SubOff
  /\ OptOff
  /\ CmdOff

InitConv ==
  /\ MainOff
  /\ AggOff
  /\ QueueOff
  /\ \E n \in 0..MaxMessages :
       \E kinds \in [1..n -> MessageKinds], usages \in [1..n -> Usages],
          ascending \in BOOLEAN :
         convIn = ConvInput(n, kinds, usages, ascending)
  /\ convStage = "loop"
  /\ convPos = 1
  /\ convMap = << >>
  /\ convOut = << >>

\* one turn of `for (const message of messages)`
ConvMessage ==
  /\ convStage = "loop"
  /\ convPos <= Len(convIn)
  /\ convMap' = ConversationLoop(convMap, convIn[convPos])
  /\ convPos' = convPos + 1
  /\ UNCHANGED << convIn, convStage, convOut, outsideConversations >>

ConvReturn ==
  /\ convStage = "loop"
  /\ convPos > Len(convIn)
  /\ convOut' = WithIndex(convMap)
  /\ convStage' = "returned"
  /\ UNCHANGED << convIn, convPos, convMap, outsideConversations >>

NextConv == ConvMessage \/ ConvReturn

SpecConv == InitConv /\ [][NextConv]_vars

RECURSIVE SumOver(_, _)
SumOver(f, S) ==
  IF S = {} THEN 0
  ELSE LET x == CHOOSE y \in S : TRUE IN f[x] + SumOver(f, S \ {x})

\* the key the messages are to be grouped by
KeyOf(message) ==
  IF message.role = "assistant" /\ message.askId # "" THEN message.askId ELSE message.id

WithKey(messages, key) == { i \in 1..Len(messages) : KeyOf(messages[i]) = key }

FirstWithKey(messages, key) ==
  CHOOSE i \in WithKey(messages, key) : \A j \in WithKey(messages, key) : i <= j

\* the summary of the messages at the places S of a list
SummaryOver(messages, S) ==
  [promptTokens |-> SumOver([i \in S |-> NormalizeUsage(messages[i].usage).promptTokens], S),
   completionTokens |->
     SumOver([i \in S |-> NormalizeUsage(messages[i].usage).completionTokens], S),
   totalTokens |-> SumOver([i \in S |-> NormalizeUsage(messages[i].usage).totalTokens], S),
   messageCount |-> Cardinality(S),
   messagesWithUsage |-> Cardinality({ i \in S : messages[i].usage.present })]

\* the entries describe the messages: one entry per key, in order of first
\* occurrence, numbered from 1, each with the count and sums of its messages
DescribesConversations(stats, messages) ==
  /\ Len(stats) = Cardinality({ KeyOf(messages[i]) : i \in 1..Len(messages) })
  /\ \A i \in 1..Len(stats) :
       /\ stats[i].index = i
       /\ WithKey(messages, stats[i].id) # {}
       /\ \A j \in 1..Len(stats) :
            i < j => /\ WithKey(messages, stats[j].id) # {}
                     /\ FirstWithKey(messages, stats[i].id)
                          < FirstWithKey(messages, stats[j].id)
       /\ \A f \in SummaryFields :
            stats[i][f] = SummaryOver(messages, WithKey(messages, stats[i].id))[f]

\* C21: buildConversationUsageStats keys each message by its askId when it is
\* an assistant message with an askId and by its own id otherwise; it returns
\* one entry per distinct key, in order of first occurrence with index 1..n,
\* and the counts and token sums of an entry are those of exactly the
\* messages with its key.
C21_ConversationsByKey ==
  convStage = "returned" => DescribesConversations(convOut, convIn)

\* three messages in two conversations: the third answers the first, the
\* second is a user message that carries an askId and stands alone
C21_Witness ==
  /\ convStage = "returned"
  /\ Len(convIn) = 3
  /\ convIn[1].role = "user"
  /\ convIn[2].role = "user" /\ convIn[2].askId = "m1"
  /\ convIn[3].role = "assistant" /\ convIn[3].askId = "m1"
  /\ convIn[3].usage.present /\ convIn[3].usage.prompt_tokens.n < 0
  /\ Len(convOut) = 2
  /\ convOut[1].id = "m1" /\ convOut[1].messageCount = 2
  /\ convOut[2].id = "m2" /\ convOut[2].index = 2

(***************************************************************************)
(* The usage statistics: assistants, topics and conversations.             *)
(***************************************************************************)
MaxAssistants == 2
MaxTopics == 2

\* conversations.forEach(...), topicStats.forEach(...) and
\* assistantStats.forEach(...) merging into one summary
RECURSIVE MergeAll(_, _)
MergeAll(summary, list) ==
  IF list = << >> THEN summary
  ELSE MergeAll(MergeSummary(summary, Head(list)), Tail(list))

\* list.reduce((count, item) => count + item.conversationCount, 0)
RECURSIVE ReduceConversationCount(_)
ReduceConversationCount(list) ==
  IF list = << >> THEN 0
  ELSE ReduceConversationCount(SubSeq(list, 1, Len(list) - 1))
         + list[Len(list)].conversationCount

\* list.reduce((count, item) => count + item.topicCount, 0)
RECURSIVE ReduceTopicCount(_)
ReduceTopicCount(list) ==
  IF list = << >> THEN 0
  ELSE ReduceTopicCount(SubSeq(list, 1, Len(list) - 1)) + list[Len(list)].topicCount

BuildTopicUsageStats(topic, messages) ==
  LET conversations == BuildConversationUsageStats(messages)
      summary == MergeAll(CreateEmptySummary, conversations)
  IN [topicId |-> topic.id, topicName |-> topic.name,
      conversationCount |-> Len(conversations),
      conversations |-> conversations] @@ summary

\* topicMessagesById[topic.id] ?? []
MessagesOf(topicMessagesById, topicId) ==
  IF topicId \in DOMAIN topicMessagesById THEN topicMessagesById[topicId] ELSE << >>

\* the callback of assistants.map
AssistantStats(assistant, topicMessagesById) ==
  LET topics == IF assistant.topics.isArray THEN assistant.topics.items ELSE << >>
      topicStats ==
        [i \in 1..Len(topics) |->
           BuildTopicUsageStats(topics[i], MessagesOf(topicMessagesById, topics[i].id))]
      summary == MergeAll(CreateEmptySummary, topicStats)
  IN [assistantId |-> assistant.id, assistantName |-> assistant.name,
      topicCount |-> Len(topicStats),
      conversationCount |-> ReduceConversationCount(topicStats),
      topics |-> topicStats] @@ summary

\* what aggregateUsageStatistics returns once assistantStats is complete
UsageStatistics(assistantStats, generatedAt) ==
  LET globalSummary == MergeAll(CreateEmptySummary, assistantStats)
  IN [assistantCount |-> Len(assistantStats),
      topicCount |-> ReduceTopicCount(assistantStats),
      conversationCount |-> ReduceConversationCount(assistantStats),
      generatedAt |-> generatedAt,
      assistants |-> assistantStats] @@ globalSummary

TopicIds == {"t1", "t2"}
Topic(id) == [id |-> id, name |-> "Topic " \o id]

\* the topics of an assistant: a list, or a value that is not an array
TopicLists ==
  { [isArray |-> FALSE, items |-> << >>] } \cup
  UNION { { [isArray |-> TRUE, items |-> [i \in 1..n |-> Topic(ids[i])]] :
            ids \in [1..n -> TopicIds] } : n \in 0..MaxTopics }

\* a question with its answer
OneConversation ==
  << Message("m1", "user", "", UsageOf(Num(1), Num(2), Undef), 1),
     Message("m2", "assistant", "m1", UsageOf(Num(0 - 1), Num(1), Num(5)), 2) >>

\* two questions, the first one answered
TwoConversations ==
  << Message("m1", "user", "", NoUsage, 1),
     Message("m2", "user", "", UsageOf(Num(2), Num(0), Num(2)), 2),
     Message("m3", "assistant", "m1", UsageOf(Num(3), Num(4), Undef), 3) >>

MessageLists == {OneConversation, TwoConversations}

\* the messages by topic id: a topic may have no entry
TopicMessages ==
  UNION { [known -> MessageLists] : known \in SUBSET TopicIds }

Assistant(i, topics) ==
  [id |-> "a" \o ToString(i), name |-> "Assistant " \o ToString(i), topics |-> topics]

InitAgg ==
  /\ MainOff
  /\ ConvOff
  /\ QueueOff
  /\ \E n \in 0..MaxAssistants :
       \E lists \in [1..n -> TopicLists], messages \in TopicMessages :
         aggIn = [assistants |-> [i \in 1..n |-> Assistant(i, lists[i])],
                  topicMessagesById |-> messages]
  /\ aggStage = "map"
  /\ aggStats = << >>
  /\ aggOut = NoStatistics

\* assistants.map: the callback on the next assistant
AggAssistant ==
  /\ aggStage = "map"
  /\ Len(aggStats) < Len(aggIn.assistants)
  /\ aggStats' = Append(aggStats,
                        AssistantStats(aggIn.assistants[Len(aggStats) + 1],
                                       aggIn.topicMessagesById))
  /\ UNCHANGED << aggIn, aggStage, aggOut, outsideStatistics >>

AggReturn ==
  /\ aggStage = "map"
  /\ Len(aggStats) = Len(aggIn.assistants)
  /\ aggOut' = UsageStatistics(aggStats, "now")
  /\ aggStage' = "returned"
  /\ UNCHANGED << aggIn, aggStats, outsideStatistics >>

NextAgg == AggAssistant \/ AggReturn

SpecAgg == InitAgg /\ [][NextAgg]_vars

\* the sum of a field over a list of records
SumField(list, field) == SumOver([i \in 1..Len(list) |-> list[i][field]], 1..Len(list))

\* the messages of the topics listed under an assistant, a topic counted as
\* often as it is listed
MessagesListed(assistant, topicMessagesById) ==
  LET topics == IF assistant.topics.isArray THEN assistant.topics.items ELSE << >>
  IN SumOver([i \in 1..Len(topics) |->
                Len(MessagesOf(topicMessagesById, topics[i].id))], 1..Len(topics))

\* C22: in the result of aggregateUsageStatistics every summary field of the
\* global level is the sum of the field over the assistants, every assistant's
\* the sum over its topics and every topic's the sum over its conversations;
\* topicCount and conversationCount are the sums of the counts below, and the
\* global messageCount is the number of messages in the topics listed under
\* the assistants.
C22_TotalsAddUp ==
  aggStage = "returned" =>
    /\ \A f \in SummaryFields : aggOut[f] = SumField(aggOut.assistants, f)
    /\ aggOut.assistantCount = Len(aggIn.assistants)
    /\ aggOut.topicCount = SumField(aggOut.assistants, "topicCount")
    /\ aggOut.conversationCount = SumField(aggOut.assistants, "conversationCount")
    /\ aggOut.messageCount =
         SumOver([i \in 1..Len(aggIn.assistants) |->
                    MessagesListed(aggIn.assistants[i], aggIn.topicMessagesById)],
                 1..Len(aggIn.assistants))
    /\ \A a \in 1..Len(aggOut.assistants) :
         LET assistant == aggOut.assistants[a]
         IN /\ \A f \in SummaryFields : assistant[f] = SumField(assistant.topics, f)
            /\ assistant.topicCount = Len(assistant.topics)
            /\ assistant.conversationCount = SumField(assistant.topics, "conversationCount")
            /\ \A t \in 1..Len(assistant.topics) :
                 LET topic == assistant.topics[t]
                 IN /\ \A f \in SummaryFields :
                         topic[f] = SumField(topic.conversations, f)
                    /\ topic.conversationCount = Len(topic.conversations)

\* two assistants, the first with both topics, the second with topics that
\* are not an array: five messages in three conversations, four with usage
C22_Witness ==
  /\ aggStage = "returned"
  /\ aggOut.assistantCount = 2
  /\ aggOut.assistants[1].topicCount = 2
  /\ aggOut.assistants[1].topics[1].topicId # aggOut.assistants[1].topics[2].topicId
  /\ ~aggIn.assistants[2].topics.isArray
  /\ aggOut.assistants[2].messageCount = 0
  /\ aggOut.topicCount = 2
  /\ aggOut.conversationCount = 3
  /\ aggOut.messageCount = 5
  /\ aggOut.messagesWithUsage = 4
  /\ aggOut.totalTokens > 0

(***************************************************************************)
(* The topic queues.                                                       *)
(***************************************************************************)
MaxTasks == 3
MaxQueues == 3

QueueTopics == {"t1", "t2"}

DEFAULT_TOPIC_QUEUE_OPTIONS == [concurrency |-> 1]

\* new PQueue(options): nothing waiting, nothing running
NewQueue(topicId, options) ==
  [topic |-> topicId, concurrency |-> options.concurrency, waiting |-> << >>,
   pending |-> 0]

\* getTopicQueue: the topic's queue, made when the topic has none; the
\* queues and the map after the call and the place of the queue returned
GetTopicQueue(topicId) ==
  IF topicId \in DOMAIN requestQueues
  THEN [queues |-> queues, requestQueues |-> requestQueues,
        queue |-> requestQueues[topicId]]
  ELSE [queues |-> Append(queues, NewQueue(topicId, DEFAULT_TOPIC_QUEUE_OPTIONS)),
        requestQueues |->
          [t \in DOMAIN requestQueues \cup {topicId} |->
             IF t = topicId THEN Len(queues) + 1 ELSE requestQueues[t]],
        queue |-> Len(queues) + 1]

InitQueue ==
  /\ MainOff
  /\ ConvOff
  /\ AggOff
  /\ requestQueues = << >>
  /\ queues = << >>
  /\ tasks = << >>
  /\ traceEnds = {}

\* getTopicQueue(topicId) for a topic without queue
QueueGet(topicId) ==
  /\ topicId \notin DOMAIN requestQueues
  /\ Len(queues) < MaxQueues
  /\ queues' = GetTopicQueue(topicId).queues
  /\ requestQueues' = GetTopicQueue(topicId).requestQueues
  /\ UNCHANGED << tasks, traceEnds, outsideQueues >>

\* getTopicQueue(topicId).add(task): the task starts at once when the queue
\* runs fewer tasks than its concurrency, and waits otherwise
QueueAdd(topicId) ==
  LET got == GetTopicQueue(topicId)
      queue == got.queues[got.queue]
      starts == queue.pending < queue.concurrency
      task == Len(tasks) + 1
  IN /\ Len(tasks) < MaxTasks
     /\ Len(got.queues) <= MaxQueues
     /\ tasks' = Append(tasks, [topic |-> topicId, queue |-> got.queue,
                                state |-> IF starts THEN "running" ELSE "waiting"])
     /\ queues' = [got.queues EXCEPT ![got.queue] =
                     IF starts THEN [queue EXCEPT !.pending = @ + 1]
                     ELSE [queue EXCEPT !.waiting = Append(@, task)]]
     /\ requestQueues' = got.requestQueues
     /\ UNCHANGED << traceEnds, outsideQueues >>

\* a running task settles: its queue starts the task waiting longest, or,
\* with nothing waiting and nothing running, emits 'idle' and the listener
\* of line 26 calls endTrace for the topic
TaskSettles(task) ==
  LET queue == queues[tasks[task].queue]
      next == Head(queue.waiting)
  IN /\ tasks[task].state = "running"
     /\ IF queue.waiting # << >>
        THEN /\ tasks' = [tasks EXCEPT ![task].state = "done", ![next].state = "running"]
             /\ queues' = [queues EXCEPT ![tasks[task].queue].waiting = Tail(@)]
             /\ UNCHANGED traceEnds
        ELSE /\ tasks' = [tasks EXCEPT ![task].state = "done"]
             /\ queues' = [queues EXCEPT ![tasks[task].queue].pending = @ - 1]
             /\ traceEnds' = IF queue.pending = 1 THEN traceEnds \cup {queue.topic}
                             ELSE traceEnds
     /\ UNCHANGED << requestQueues, outsideQueues >>

\* queue.clear() and `delete requestQueues[topicId]` for each of the topics:
\* the waiting tasks are dropped, a running task goes on
Cleared(topicIds) ==
  /\ tasks' = [i \in 1..Len(tasks) |->
                 IF /\ tasks[i].state = "waiting"
                    /\ \E t \in topicIds : requestQueues[t] = tasks[i].queue
                 THEN [tasks[i] EXCEPT !.state = "cleared"] ELSE tasks[i]]
  /\ queues' = [q \in 1..Len(queues) |->
                  IF \E t \in topicIds : requestQueues[t] = q
                  THEN [queues[q] EXCEPT !.waiting = << >>] ELSE queues[q]]
  /\ requestQueues' = [t \in DOMAIN requestQueues \ topicIds |-> requestQueues[t]]

ClearTopicQueue(topicId) ==
  /\ topicId \in DOMAIN requestQueues
  /\ Cleared({topicId})
  /\ UNCHANGED << traceEnds, outsideQueues >>

ClearAllQueues ==
  /\ DOMAIN requestQueues # {}
  /\ Cleared(DOMAIN requestQueues)
  /\ UNCHANGED << traceEnds, outsideQueues >>

NextQueue ==
  \/ \E topicId \in QueueTopics : QueueGet(topicId)
  \/ \E topicId \in QueueTopics : QueueAdd(topicId)
  \/ \E task \in 1..Len(tasks) : TaskSettles(task)
  \/ \E topicId \in QueueTopics : ClearTopicQueue(topicId)
  \/ ClearAllQueues

SpecQueue == InitQueue /\ [][NextQueue]_vars

Running(topicId) ==
  { i \in 1..Len(tasks) : tasks[i].topic = topicId /\ tasks[i].state = "running" }

\* C30: with the default options (concurrency 1) at most one task of a topic
\* is executing at any time, whatever the sequence of getTopicQueue, add,
\* clearTopicQueue and clearAllQueues calls.
C30_OneRunningTaskPerTopic ==
  \A topicId \in QueueTopics :
    Cardinality(Running(topicId)) <= DEFAULT_TOPIC_QUEUE_OPTIONS.concurrency

====
